---- MODULE Spec2Model ----
(***************************************************************************)
(* A model of the document pipeline of decentralized-rag-database:         *)
(*   - Processor.process and its helpers (descidb/core/processor.py),       *)
(*     one action per external interaction of the handler, so that         *)
(*     invocations can be interleaved where the code can be interleaved;   *)
(*   - the lock-protected converters marker() and markitdown()              *)
(*     (src/core/converter.py).                                             *)
(* Contents (documents, converted texts, chunks, embeddings) are strings;  *)
(* a CID is a string computed from the content; "" is the empty CID that   *)
(* __lighthouse_and_commit returns on failure.                              *)
(***************************************************************************)
EXTENDS Integers, Sequences, FiniteSets, TLC

VARIABLES
    inv,            \* per invocation of process(): its position and locals
    ledger,         \* the mappings.json files: temp/ ("global") and temp/<user_email>/
    nodes,          \* provenance graph: the CIDs that are nodes
    edges,          \* provenance graph: <<from, to, label>>
    store,          \* content store: the contents that were uploaded
    gitrepo,        \* per git_path: the pointer files <cid>.txt committed
    tmp,            \* temp/<user_email>/tmp.txt, one per user
    convert_cache,  \* per Processor object: self.convert_cache
    chunk_cache,    \* per Processor object: self.chunk_cache
    ncalls,         \* process() invocations started so far
    faults,         \* environment failures injected so far
    computed,       \* history: <<run, pdf cid, db_combination>> that ran the pipeline
    ever,           \* history: per ledger, the <<pdf cid, db_combination>> ever stored in it
    procs,          \* per Processor object: how far its constructor got, self.author_cid
    cthr,           \* converter model: per thread, its position in marker()/markitdown()
    holder,         \* converter model: per lock, the thread holding it ("free" when none)
    marker_models,  \* _marker_models: "None" or "loaded"
    marker_converter, \* _marker_converter: "None" or "built"
    markitdown_instance, \* _markitdown_instance: "None" or "built"
    loads,          \* history: completed create_model_dict() / MarkItDown() calls
    collections,    \* VectorDatabaseManager: per collection name, the documents in it
    vdb_last,       \* history: the last insert call, its outcome and the collections before it
    user_rewards,   \* default_schema.user_rewards of one reward database: its rows
    now,            \* CURRENT_TIMESTAMP of the PostgreSQL server
    rew_last,       \* history: the last TokenRewarder database call and its result
    owner_address,  \* TokenRewarder.owner_address: os.getenv("OWNER_ADDRESS")
    sent,           \* the transactions handed to send_raw_transaction
    tok_last,       \* history: the last issue_token / batch_issue_tokens call and its result
    whitelist_file, \* the file at WHITELIST_PATH: whether it exists, and its lines
    auth_last       \* history: the last validate_email request and its response

pvars == <<inv, ledger, nodes, edges, store, gitrepo, tmp,
           convert_cache, chunk_cache, ncalls, faults, computed, ever, procs>>
cvars == <<cthr, holder, marker_models, marker_converter, markitdown_instance, loads>>
svars == <<collections, vdb_last, user_rewards, now, rew_last, owner_address, sent,
           tok_last, whitelist_file, auth_last>>
vars == <<inv, ledger, nodes, edges, store, gitrepo, tmp,
          convert_cache, chunk_cache, ncalls, faults, computed, ever, procs,
          cthr, holder, marker_models, marker_converter, markitdown_instance, loads,
          collections, vdb_last, user_rewards, now, rew_last, owner_address, sent,
          tok_last, whitelist_file, auth_last>>

(***************************************************************************)
(* Bounds of the model.                                                    *)
(***************************************************************************)
MaxCalls == 2
MaxFaults == 1
MaxRequest == 2

Invocations == {1, 2}

(***************************************************************************)
(* Processor objects: constructed with a user_email and an authorPublicKey *)
(***************************************************************************)
Users == {"A", "B"}
\* The ledgers: the global one and one per user
Global == "global"
Scopes == {Global} \cup Users
Objects == {"o1", "o2"}
\* o3 is a second Processor object of the user of o1
AllObjects == Objects \cup {"o3"}
UserEmail(o) == IF o \in {"o1", "o3"} THEN "A" ELSE "B"
AuthorKey(o) == IF o \in {"o1", "o3"} THEN "keyA" ELSE "keyB"
Docs == {"d1", "d2"}
GitPaths == {"g1", "g2"}

(***************************************************************************)
(* Content addressing: the CID is a function of the bytes uploaded.        *)
(***************************************************************************)
Cid(content) == "Qm" \o content
AuthorCid(o) == Cid(AuthorKey(o))

\* A Processor object: where its constructor is, and self.author_cid
NotConstructed == [st |-> "none", author_cid |-> ""]
Constructed(author_cid) == [st |-> "ready", author_cid |-> author_cid]

(***************************************************************************)
(* The ledger files.  A file is missing, holds unparsable bytes, or holds  *)
(* a JSON object from document CID to a list of db_combination strings.    *)
(***************************************************************************)
EmptyMap == [k \in {} |-> <<>>]
Missing == [st |-> "missing", m |-> EmptyMap]
Garbled == [st |-> "garbled", m |-> EmptyMap]
\* a write that leaves an empty JSON object whatever it was given
StoredEmpty(m) == [st |-> "ok", m |-> EmptyMap]

Stored(m) == [st |-> "ok", m |-> m]

\* a counter per key: its value, and the counters after one more
Count(m, k) == IF k \in DOMAIN m THEN m[k] ELSE 0
Inc(m, k) == [x \in (DOMAIN m) \cup {k} |-> IF x = k THEN Count(m, k) + 1 ELSE m[x]]

ReadMappings(file) == IF file.st = "ok" THEN file.m ELSE EmptyMap

\* a membership test that finds nothing
NeverInList(seq, x) == FALSE

\* x in seq, for a list
InList(seq, x) == \E n \in 1..Len(seq) : seq[n] = x

Put(m, k, v) == [x \in (DOMAIN m) \cup {k} |-> IF x = k THEN v ELSE m[x]]

\* an update that appends without looking for the combination
AppendCombination(m, pdf_cid, db_combination) ==
    LET m1 == IF pdf_cid \in DOMAIN m THEN m ELSE Put(m, pdf_cid, <<>>)
    IN  Put(m1, pdf_cid, Append(m1[pdf_cid], db_combination))

\* lines 224-227 and 235-238
AddCombination(m, pdf_cid, db_combination) ==
    LET m1 == IF pdf_cid \in DOMAIN m THEN m ELSE Put(m, pdf_cid, <<>>)
    IN  IF InList(m1[pdf_cid], db_combination)
        THEN m1
        ELSE Put(m1, pdf_cid, Append(m1[pdf_cid], db_combination))

\* The <<pdf cid, db_combination>> pairs a mapping holds
Entries(m) == UNION {{<<k, m[k][n]>> : n \in 1..Len(m[k])} : k \in DOMAIN m}

DbCombination(db) == db.converter \o "_" \o db.chunker \o "_" \o db.embedder

\* a check that takes every combination for processed
AlwaysProcessed(m, pdf_cid, db_combination) == TRUE

\* a check that takes no combination for processed
NeverProcessed(m, pdf_cid, db_combination) == FALSE

\* line 298: the skip condition
AlreadyProcessed(m, pdf_cid, db_combination) ==
    pdf_cid \in DOMAIN m /\ InList(m[pdf_cid], db_combination)

(***************************************************************************)
(* The pluggable functions.  convert() looks the converter up in a closed  *)
(* registry; an unregistered name raises KeyError.  A registered converter *)
(* returns the text of the document.                                       *)
(***************************************************************************)
conversion_methods == {"marker", "openai", "markitdown"}

\* The converters that catch every exception and return "" instead
SwallowingConverters == {"openai", "markitdown"}

ConvertText(converter, doc) == converter \o "(" \o doc \o ")"

MaxChunks == 2

Part(text, n) ==
    text \o (IF n = 1 THEN "#1" ELSE IF n = 2 THEN "#2" ELSE IF n = 3 THEN "#3" ELSE "#n")

\* chunk(chunker_type, input_text): a function of the chunker and the text.
\* The text "" has no chunk; "fixed_length" returns a text shorter than its
\* window whole; "paragraph" returns distinct parts; "sentence" returns the
\* parts of a text that repeats itself.
ChunkText(chunker, text) ==
    IF text = "" THEN <<>>
    ELSE IF chunker = "fixed_length" THEN <<text>>
    ELSE IF chunker = "sentence" THEN [n \in 1..MaxChunks |-> Part(text, 1)]
    ELSE [n \in 1..MaxChunks |-> Part(text, n)]

\* json.dumps(embed(embedder, chunk))
EmbeddingJson(embedder, chunk) == "[" \o embedder \o ":" \o chunk \o "]"

(***************************************************************************)
(* The provenance graph (IPFSNeo4jGraph).                                   *)
(***************************************************************************)
ConvertedBy(converter) == "CONVERTED_BY_" \o converter
ChunkedBy(chunker) == "CHUNKED_BY_" \o chunker
EmbeddedBy(embedder) == "EMBEDDED_BY_" \o embedder

\* get_converted_markdown_cid: the targets of the document's conversion edges
ConvertedMarkdownCids(pdf_cid, converter) ==
    {e[2] : e \in {x \in edges : x[1] = pdf_cid /\ x[3] = ConvertedBy(converter)}}

\* _query_ipfs_content: the content stored under a CID, if any
IpfsContents(cid) == {c \in store : Cid(c) = cid}

(***************************************************************************)
(* __lighthouse_and_commit: upload, write the pointer file <cid>.txt, git  *)
(* add, git commit (check=True).  The commit exits non-zero when the       *)
(* pointer file is already committed with the same content (nothing to     *)
(* commit); every exception is caught and "" is returned.                  *)
(***************************************************************************)
CommitSucceeds(content, git_path) == Cid(content) \notin gitrepo[git_path]

LighthouseAndCommit(content, git_path) ==
    IF CommitSucceeds(content, git_path) THEN Cid(content) ELSE ""

\* The effect of a call whose upload request succeeded
Uploaded(content, git_path) ==
    /\ store' = store \cup {content}
    /\ gitrepo' = [gitrepo EXCEPT ![git_path] = @ \cup {Cid(content)}]

(***************************************************************************)
(* One invocation of Processor.process.                                    *)
(***************************************************************************)
Resting == {"idle", "done", "raised"}

NoSnap == [uploads |-> 0, graph_calls |-> 0, plugged |-> 0, global |-> Missing,
           user |-> Missing, convert_cache |-> EmptyMap, chunk_cache |-> EmptyMap]

NoEntry == [ledger |-> [s \in Scopes |-> Missing], nodes |-> {}, edges |-> {}]

\* The locals of process() (pdf_path .. mappings) and, below them, the
\* history of the invocation: what it did so far (reused: the iteration
\* took its converted text from the graph; swallowed: the iterations in
\* which an upload gave the CID ""; convert_calls, chunk_calls: how often the
\* invocation called convert() per converter name and chunk() per cache key;
\* missed: how the iteration's lookup of a conversion missed, "graph" or
\* "fetch"; errors: the environment failures other than a miss;
\* ledger_errors: the reads and writes of a ledger file that failed;
\* entry: the graph and the ledger files as they were when process() began).
IdleInv ==
    [pc |-> "idle", o |-> "o1", pdf_path |-> "", databases |-> <<>>, git_path |-> "g1",
     run |-> 0, i |-> 0, pdf_cid |-> "", cid |-> "", text |-> "", chunks |-> <<>>,
     j |-> 0, chunk_cid |-> "", emb_cid |-> "", mappings |-> EmptyMap,
     skip |-> FALSE, snap |-> NoSnap,
     uploads |-> 0, graph_calls |-> 0, added |-> 0, plugged |-> 0, ledger_writes |-> 0,
     marked |-> {}, faulted |-> FALSE, reused |-> FALSE, swallowed |-> {},
     convert_calls |-> EmptyMap, chunk_calls |-> EmptyMap, missed |-> "", errors |-> 0,
     ledger_errors |-> 0, entry |-> NoEntry]

\* a loop that works on the last configuration of the list whatever its index
LastDb(t) == inv[t].databases[Len(inv[t].databases)]

\* db_config of the iteration under way
Db(t) == inv[t].databases[inv[t].i]
User(t) == UserEmail(inv[t].o)
\* an invocation that links what it registers to the empty CID
NoAuthor(t) == ""

\* self.author_cid of the object the invocation runs on
Author(t) == procs[inv[t].o].author_cid

\* How many of the given nodes and edges the graph does not hold yet
Fresh(ns, es) == Cardinality(ns \ nodes) + Cardinality(es \ edges)

\* add_ipfs_node / create_relationship: idempotent insertions
GraphAdd(ns, es) ==
    /\ nodes' = nodes \cup ns
    /\ edges' = edges \cup es

\* history: the invocation called a pluggable function for its configuration
Ran(t) == computed \cup {<<inv[t].run, inv[t].pdf_cid, DbCombination(Db(t))>>}

\* a process() that keeps the caches its object holds from the call before
StartKeepingCaches(t, o, doc, dbs, g, exclusive) ==
    /\ inv[t].pc \in Resting
    /\ exclusive => \A u \in Invocations : inv[u].pc \in Resting
    /\ ncalls < MaxCalls
    /\ ncalls' = ncalls + 1
    /\ inv' = [inv EXCEPT ![t] =
                 [IdleInv EXCEPT !.pc = "upload_pdf", !.o = o, !.pdf_path = doc,
                                 !.databases = dbs, !.git_path = g, !.run = ncalls + 1,
                                 !.entry = [ledger |-> ledger, nodes |-> nodes,
                                            edges |-> edges]]]
    /\ UNCHANGED <<ledger, nodes, edges, store, gitrepo, tmp, faults, computed, ever>>
    /\ UNCHANGED <<convert_cache, chunk_cache, procs, cvars, svars>>

\* lines 251-270: reset the caches of the object, resolve the metadata
Start(t, o, doc, dbs, g, exclusive) ==
    /\ inv[t].pc \in Resting
    /\ exclusive => \A u \in Invocations : inv[u].pc \in Resting
    /\ ncalls < MaxCalls
    /\ ncalls' = ncalls + 1
    /\ inv' = [inv EXCEPT ![t] =
                 [IdleInv EXCEPT !.pc = "upload_pdf", !.o = o, !.pdf_path = doc,
                                 !.databases = dbs, !.git_path = g, !.run = ncalls + 1,
                                 !.entry = [ledger |-> ledger, nodes |-> nodes,
                                            edges |-> edges]]]
    /\ convert_cache' = [convert_cache EXCEPT ![o] = EmptyMap]
    /\ chunk_cache' = [chunk_cache EXCEPT ![o] = EmptyMap]
    /\ UNCHANGED <<ledger, nodes, edges, store, gitrepo, tmp, faults, computed, ever>>
    /\ UNCHANGED <<procs, cvars, svars>>

\* a process() that goes on after a document upload that gave no CID
NeverAborts(pdf_cid) == FALSE

\* line 277: if not metadata["pdf_ipfs_cid"]
PdfUploadFailed(pdf_cid) == pdf_cid = ""

\* lines 272-285: upload the document; return if that gave no CID; else
\* register the document node and link it to the author
UploadPdf(t) ==
    /\ inv[t].pc = "upload_pdf"
    /\ LET r == inv[t]
           pdf_cid == LighthouseAndCommit(r.pdf_path, r.git_path)
           ns == {pdf_cid}
           es == {<<pdf_cid, Author(t), "AUTHORED_BY">>}
       IN  /\ Uploaded(r.pdf_path, r.git_path)
           /\ IF PdfUploadFailed(pdf_cid)
              THEN /\ inv' = [inv EXCEPT ![t] =
                                [r EXCEPT !.pc = "done", !.uploads = @ + 1]]
                   /\ UNCHANGED <<nodes, edges>>
              ELSE /\ inv' = [inv EXCEPT ![t] =
                                [r EXCEPT !.pc = "next_db", !.pdf_cid = pdf_cid, !.i = 1,
                                          !.uploads = @ + 1, !.graph_calls = @ + 2,
                                          !.added = @ + Fresh(ns, es)]]
                   /\ GraphAdd(ns, es)
    /\ UNCHANGED <<ledger, tmp, convert_cache, chunk_cache, ncalls, faults, computed, ever>>
    /\ UNCHANGED <<procs, cvars, svars>>

\* the same call when the upload request itself fails (transport, auth)
UploadPdfFails(t) ==
    /\ inv[t].pc = "upload_pdf"
    /\ faults < MaxFaults
    /\ faults' = faults + 1
    /\ inv' = [inv EXCEPT ![t] =
                 [@ EXCEPT !.pc = "done", !.uploads = @ + 1, !.faulted = TRUE,
                           !.errors = @ + 1]]
    /\ UNCHANGED <<ledger, nodes, edges, store, gitrepo, tmp,
                   convert_cache, chunk_cache, ncalls, computed, ever>>
    /\ UNCHANGED <<procs, cvars, svars>>

\* lines 287-301: the next configuration of the list, or return; read the
\* global ledger and decide between the skip path and the pipeline
\* what the invocation has done and what it can see when an iteration starts
SnapAt(r) ==
    [uploads |-> r.uploads, graph_calls |-> r.graph_calls, plugged |-> r.plugged,
     global |-> ledger[Global], user |-> ledger[UserEmail(r.o)],
     convert_cache |-> convert_cache[r.o], chunk_cache |-> chunk_cache[r.o]]

NextDb(t) ==
    /\ inv[t].pc = "next_db"
    /\ LET r == inv[t]
       IN  IF r.i > Len(r.databases)
           THEN inv' = [inv EXCEPT ![t] = [r EXCEPT !.pc = "done"]]
           ELSE LET comb == DbCombination(r.databases[r.i])
                    global_mappings == ReadMappings(ledger[Global])
                IN  IF AlreadyProcessed(global_mappings, r.pdf_cid, comb)
                    THEN inv' = [inv EXCEPT ![t] =
                                      [r EXCEPT !.pc = "read_global", !.skip = TRUE,
                                                !.reused = FALSE, !.missed = "",
                                                !.snap = SnapAt(r)]]
                    ELSE inv' = [inv EXCEPT ![t] =
                                   [r EXCEPT !.pc = "find_conversion", !.skip = FALSE,
                                             !.reused = FALSE, !.missed = "",
                                             !.snap = SnapAt(r)]]
    /\ UNCHANGED <<ledger, nodes, edges, store, gitrepo, tmp,
                   convert_cache, chunk_cache, ncalls, faults, computed, ever>>
    /\ UNCHANGED <<procs, cvars, svars>>

\* a lookup whose result is ignored: the conversion block is always entered
AlwaysConvert(t, cid, cache) == "convert"

\* line 330-340 as reached with converted_text_ipfs_cid = cid: where the
\* conversion step continues
AfterLookup(t, cid, cache) ==
    IF cid = "" \/ Db(t).converter \notin DOMAIN cache
    THEN "convert"
    ELSE "chunk"

\* lines 305-327: look for an existing conversion of the document in the
\* graph, fetch its content and seed the convert cache with it
FindConversion(t) ==
    /\ inv[t].pc = "find_conversion"
    /\ LET r == inv[t]
           converter == Db(t).converter
           found == ConvertedMarkdownCids(r.pdf_cid, converter)
       IN  \E c \in (IF found = {} THEN {""} ELSE found) :
             LET contents == IF c = "" THEN {} ELSE IpfsContents(c)
                 fetched == IF contents = {} THEN "" ELSE CHOOSE x \in contents : TRUE
                 cache == IF fetched = ""
                          THEN convert_cache[r.o]
                          ELSE Put(convert_cache[r.o], converter, fetched)
                 cid == IF fetched = "" THEN "" ELSE c
             IN  /\ convert_cache' = [convert_cache EXCEPT ![r.o] = cache]
                 /\ inv' = [inv EXCEPT ![t] =
                              [r EXCEPT !.pc = AfterLookup(t, cid, cache), !.cid = cid,
                                        !.text = fetched, !.reused = (cid # ""),
                                        !.missed = IF cid # "" THEN ""
                                                   ELSE IF c = "" THEN "graph"
                                                   ELSE "fetch"]]
    /\ UNCHANGED <<ledger, nodes, edges, store, gitrepo, tmp,
                   chunk_cache, ncalls, faults, computed, ever>>
    /\ UNCHANGED <<procs, cvars, svars>>

\* lines 316-327 when _query_ipfs_content returns nothing for a CID the graph holds
FetchFails(t) ==
    /\ inv[t].pc = "find_conversion"
    /\ faults < MaxFaults
    /\ \E c \in ConvertedMarkdownCids(inv[t].pdf_cid, Db(t).converter) : c # ""
    /\ faults' = faults + 1
    /\ inv' = [inv EXCEPT ![t] =
                 [@ EXCEPT !.pc = AfterLookup(t, "", convert_cache[inv[t].o]),
                           !.cid = "", !.text = "", !.faulted = TRUE,
                           !.missed = "fetch"]]
    /\ UNCHANGED <<ledger, nodes, edges, store, gitrepo, tmp,
                   convert_cache, chunk_cache, ncalls, computed, ever>>
    /\ UNCHANGED <<procs, cvars, svars>>

\* lines 334-343: convert unless cached, then write the text to tmp.txt.
\* convert() raises KeyError for a name that is not registered.
Convert(t) ==
    /\ inv[t].pc = "convert"
    /\ LET r == inv[t]
           converter == Db(t).converter
           cached == converter \in DOMAIN convert_cache[r.o]
           converted_text == IF cached THEN convert_cache[r.o][converter]
                             ELSE ConvertText(converter, r.pdf_path)
       IN  IF ~cached /\ converter \notin conversion_methods
           THEN /\ inv' = [inv EXCEPT ![t] = [r EXCEPT !.pc = "raised"]]
                /\ UNCHANGED <<convert_cache, tmp, computed>>
           ELSE /\ convert_cache' =
                      [convert_cache EXCEPT ![r.o] = Put(@, converter, converted_text)]
                /\ tmp' = [tmp EXCEPT ![User(t)] = converted_text]
                /\ inv' = [inv EXCEPT ![t] =
                             [r EXCEPT !.pc = "upload_text", !.text = converted_text,
                                       !.plugged = IF cached THEN @ ELSE @ + 1,
                                       !.convert_calls =
                                           IF cached THEN @ ELSE Inc(@, converter)]]
                /\ computed' = IF cached THEN computed ELSE Ran(t)
    /\ UNCHANGED <<ledger, nodes, edges, store, gitrepo,
                   chunk_cache, ncalls, faults, ever>>
    /\ UNCHANGED <<procs, cvars, svars>>

\* the converter fails inside: marker() lets the exception out of process(),
\* openai() and markitdown() catch it and return ""
ConvertFails(t) ==
    /\ inv[t].pc = "convert"
    /\ faults < MaxFaults
    /\ Db(t).converter \in conversion_methods
    /\ Db(t).converter \notin DOMAIN convert_cache[inv[t].o]
    /\ faults' = faults + 1
    /\ computed' = Ran(t)
    /\ LET r == inv[t]
           converter == Db(t).converter
       IN  IF converter \in SwallowingConverters
           THEN /\ convert_cache' = [convert_cache EXCEPT ![r.o] = Put(@, converter, "")]
                /\ tmp' = [tmp EXCEPT ![User(t)] = ""]
                /\ inv' = [inv EXCEPT ![t] =
                             [r EXCEPT !.pc = "upload_text", !.text = "",
                                       !.plugged = @ + 1, !.faulted = TRUE,
                                       !.errors = @ + 1,
                                       !.convert_calls = Inc(@, converter)]]
           ELSE /\ inv' = [inv EXCEPT ![t] =
                             [r EXCEPT !.pc = "raised", !.plugged = @ + 1,
                                       !.faulted = TRUE, !.errors = @ + 1,
                                       !.convert_calls = Inc(@, converter)]]
                /\ UNCHANGED <<convert_cache, tmp>>
    /\ UNCHANGED <<ledger, nodes, edges, store, gitrepo,
                   chunk_cache, ncalls, ever>>
    /\ UNCHANGED <<procs, cvars, svars>>

\* lines 345-347: upload tmp.txt as the converted text
UploadText(t) ==
    /\ inv[t].pc = "upload_text"
    /\ LET r == inv[t]
           content == tmp[User(t)]
       IN  /\ Uploaded(content, r.git_path)
           /\ inv' = [inv EXCEPT ![t] =
                        [r EXCEPT !.pc = "link_text", !.uploads = @ + 1,
                                  !.cid = LighthouseAndCommit(content, r.git_path),
                                  !.swallowed =
                                      IF LighthouseAndCommit(content, r.git_path) = ""
                                      THEN @ \cup {r.i} ELSE @]]
    /\ UNCHANGED <<ledger, nodes, edges, tmp, convert_cache, chunk_cache,
                   ncalls, faults, computed, ever>>
    /\ UNCHANGED <<procs, cvars, svars>>

\* lines 349-357: register the converted text and link it
LinkText(t) ==
    /\ inv[t].pc = "link_text"
    /\ LET r == inv[t]
           ns == {r.cid}
           es == {<<r.pdf_cid, r.cid, ConvertedBy(Db(t).converter)>>,
                  <<r.cid, Author(t), "AUTHORED_BY">>}
       IN  /\ GraphAdd(ns, es)
           /\ inv' = [inv EXCEPT ![t] =
                        [r EXCEPT !.pc = "chunk", !.graph_calls = @ + 3,
                                  !.added = @ + Fresh(ns, es)]]
    /\ UNCHANGED <<ledger, store, gitrepo, tmp, convert_cache, chunk_cache,
                   ncalls, faults, computed, ever>>
    /\ UNCHANGED <<procs, cvars, svars>>

ChunkCacheKey(db) == db.converter \o "_" \o db.chunker

\* a chunk loop that ends after its first chunk
FirstChunkOnly(chunks, j) ==
    IF j <= Len(chunks) /\ j <= 1 THEN "write_chunk" ELSE "read_global"

\* a chunk loop that embeds the chunks after the first without uploading them
EmbedsUnuploaded(chunks, j) ==
    IF j > Len(chunks) THEN "read_global"
    ELSE IF j = 1 THEN "write_chunk" ELSE "embed"

\* where the chunk loop goes with the sequence chunks and index j
LoopPc(chunks, j) == IF j <= Len(chunks) THEN "write_chunk" ELSE "read_global"

\* lines 359-368: take the converted text from the convert cache (KeyError
\* when the cache does not hold it) and chunk it unless the chunks are cached
Chunk(t) ==
    /\ inv[t].pc = "chunk"
    /\ LET r == inv[t]
           converter == Db(t).converter
           key == ChunkCacheKey(Db(t))
           cached == key \in DOMAIN chunk_cache[r.o]
       IN  IF converter \notin DOMAIN convert_cache[r.o]
           THEN /\ inv' = [inv EXCEPT ![t] = [r EXCEPT !.pc = "raised"]]
                /\ UNCHANGED <<chunk_cache, computed>>
           ELSE LET converted_text == convert_cache[r.o][converter]
                    chunked_text == IF cached THEN chunk_cache[r.o][key]
                                    ELSE ChunkText(Db(t).chunker, converted_text)
                IN    /\ chunk_cache' =
                            [chunk_cache EXCEPT ![r.o] = Put(@, key, chunked_text)]
                      /\ inv' = [inv EXCEPT ![t] =
                                   [r EXCEPT !.pc = LoopPc(chunked_text, 1),
                                             !.text = converted_text,
                                             !.chunks = chunked_text, !.j = 1,
                                             !.plugged = IF cached THEN @ ELSE @ + 1,
                                             !.chunk_calls =
                                                 IF cached THEN @ ELSE Inc(@, key)]]
                      /\ computed' = IF cached THEN computed ELSE Ran(t)
    /\ UNCHANGED <<ledger, nodes, edges, store, gitrepo, tmp, convert_cache,
                   ncalls, faults, ever>>
    /\ UNCHANGED <<procs, cvars, svars>>

\* line 371: write the chunk to tmp.txt
WriteChunk(t) ==
    /\ inv[t].pc = "write_chunk"
    /\ tmp' = [tmp EXCEPT ![User(t)] = inv[t].chunks[inv[t].j]]
    /\ inv' = [inv EXCEPT ![t] = [@ EXCEPT !.pc = "upload_chunk"]]
    /\ UNCHANGED <<ledger, nodes, edges, store, gitrepo, convert_cache, chunk_cache,
                   ncalls, faults, computed, ever>>
    /\ UNCHANGED <<procs, cvars, svars>>

\* lines 373-375: upload tmp.txt as the chunk
UploadChunk(t) ==
    /\ inv[t].pc = "upload_chunk"
    /\ LET r == inv[t]
           content == tmp[User(t)]
       IN  /\ Uploaded(content, r.git_path)
           /\ inv' = [inv EXCEPT ![t] =
                        [r EXCEPT !.pc = "link_chunk", !.uploads = @ + 1,
                                  !.chunk_cid = LighthouseAndCommit(content, r.git_path),
                                  !.swallowed =
                                      IF LighthouseAndCommit(content, r.git_path) = ""
                                      THEN @ \cup {r.i} ELSE @]]
    /\ UNCHANGED <<ledger, nodes, edges, tmp, convert_cache, chunk_cache,
                   ncalls, faults, computed, ever>>
    /\ UNCHANGED <<procs, cvars, svars>>

\* lines 377-385: register the chunk and link it
LinkChunk(t) ==
    /\ inv[t].pc = "link_chunk"
    /\ LET r == inv[t]
           ns == {r.chunk_cid}
           es == {<<r.cid, r.chunk_cid, ChunkedBy(Db(t).chunker)>>,
                  <<r.chunk_cid, Author(t), "AUTHORED_BY">>}
       IN  /\ GraphAdd(ns, es)
           /\ inv' = [inv EXCEPT ![t] =
                        [r EXCEPT !.pc = "embed", !.graph_calls = @ + 3,
                                  !.added = @ + Fresh(ns, es)]]
    /\ UNCHANGED <<ledger, store, gitrepo, tmp, convert_cache, chunk_cache,
                   ncalls, faults, computed, ever>>
    /\ UNCHANGED <<procs, cvars, svars>>

\* lines 388-390: embed the chunk and write the embedding to tmp.txt
Embed(t) ==
    /\ inv[t].pc = "embed"
    /\ tmp' = [tmp EXCEPT ![User(t)] =
                 EmbeddingJson(Db(t).embedder, inv[t].chunks[inv[t].j])]
    /\ inv' = [inv EXCEPT ![t] = [@ EXCEPT !.pc = "upload_embedding", !.plugged = @ + 1]]
    /\ computed' = Ran(t)
    /\ UNCHANGED <<ledger, nodes, edges, store, gitrepo, convert_cache, chunk_cache,
                   ncalls, faults, ever>>
    /\ UNCHANGED <<procs, cvars, svars>>

\* lines 392-394: upload tmp.txt as the embedding
UploadEmbedding(t) ==
    /\ inv[t].pc = "upload_embedding"
    /\ LET r == inv[t]
           content == tmp[User(t)]
       IN  /\ Uploaded(content, r.git_path)
           /\ inv' = [inv EXCEPT ![t] =
                        [r EXCEPT !.pc = "link_embedding", !.uploads = @ + 1,
                                  !.emb_cid = LighthouseAndCommit(content, r.git_path),
                                  !.swallowed =
                                      IF LighthouseAndCommit(content, r.git_path) = ""
                                      THEN @ \cup {r.i} ELSE @]]
    /\ UNCHANGED <<ledger, nodes, edges, tmp, convert_cache, chunk_cache,
                   ncalls, faults, computed, ever>>
    /\ UNCHANGED <<procs, cvars, svars>>

\* lines 395-403: register the embedding and link it; next chunk
LinkEmbedding(t) ==
    /\ inv[t].pc = "link_embedding"
    /\ LET r == inv[t]
           ns == {r.emb_cid}
           es == {<<r.chunk_cid, r.emb_cid, EmbeddedBy(Db(t).embedder)>>,
                  <<r.emb_cid, Author(t), "AUTHORED_BY">>}
       IN  /\ GraphAdd(ns, es)
           /\ inv' = [inv EXCEPT ![t] =
                        [r EXCEPT !.pc = LoopPc(r.chunks, r.j + 1), !.j = @ + 1,
                                  !.graph_calls = @ + 3, !.added = @ + Fresh(ns, es)]]
    /\ UNCHANGED <<ledger, store, gitrepo, tmp, convert_cache, chunk_cache,
                   ncalls, faults, computed, ever>>
    /\ UNCHANGED <<procs, cvars, svars>>

\* an upload failure that ends the invocation
UploadFailureRaises(t) ==
    /\ inv[t].pc \in {"upload_text", "upload_chunk", "upload_embedding"}
    /\ faults < MaxFaults
    /\ faults' = faults + 1
    /\ inv' = [inv EXCEPT ![t] = [@ EXCEPT !.pc = "raised", !.uploads = @ + 1,
                                           !.faulted = TRUE, !.errors = @ + 1,
                                           !.swallowed = @ \cup {inv[t].i}]]
    /\ UNCHANGED <<ledger, nodes, edges, store, gitrepo, tmp, convert_cache, chunk_cache,
                   ncalls, computed, ever>>
    /\ UNCHANGED <<procs, cvars, svars>>

\* __lighthouse_and_commit when the upload request fails: "" is the CID
UploadFails(t) ==
    /\ inv[t].pc \in {"upload_text", "upload_chunk", "upload_embedding"}
    /\ faults < MaxFaults
    /\ faults' = faults + 1
    /\ LET r == inv[t]
       IN  inv' = [inv EXCEPT ![t] =
                     [r EXCEPT !.pc = IF r.pc = "upload_text" THEN "link_text"
                                      ELSE IF r.pc = "upload_chunk" THEN "link_chunk"
                                      ELSE "link_embedding",
                               !.cid = IF r.pc = "upload_text" THEN "" ELSE @,
                               !.chunk_cid = IF r.pc = "upload_chunk" THEN "" ELSE @,
                               !.emb_cid = IF r.pc = "upload_embedding" THEN "" ELSE @,
                               !.uploads = @ + 1, !.faulted = TRUE, !.errors = @ + 1,
                               !.swallowed = @ \cup {r.i}]]
    /\ UNCHANGED <<ledger, nodes, edges, store, gitrepo, tmp, convert_cache, chunk_cache,
                   ncalls, computed, ever>>
    /\ UNCHANGED <<procs, cvars, svars>>

\* a graph call, the chunker or the embedder raises: nothing in process()
\* catches it
RaisingPcs == {"find_conversion", "link_text", "chunk", "link_chunk", "embed",
               "link_embedding"}

\* an exception that is swallowed, the configuration being marked complete
RaiseThenMark(t) ==
    /\ inv[t].pc \in RaisingPcs
    /\ faults < MaxFaults
    /\ faults' = faults + 1
    /\ inv' = [inv EXCEPT ![t] = [@ EXCEPT !.pc = "read_global", !.faulted = TRUE,
                                           !.errors = @ + 1]]
    /\ UNCHANGED <<ledger, nodes, edges, store, gitrepo, tmp, convert_cache, chunk_cache,
                   ncalls, computed, ever>>
    /\ UNCHANGED <<procs, cvars, svars>>

Raise(t) ==
    /\ inv[t].pc \in RaisingPcs
    /\ faults < MaxFaults
    /\ faults' = faults + 1
    /\ inv' = [inv EXCEPT ![t] = [@ EXCEPT !.pc = "raised", !.faulted = TRUE,
                                           !.errors = @ + 1]]
    /\ UNCHANGED <<ledger, nodes, edges, store, gitrepo, tmp, convert_cache, chunk_cache,
                   ncalls, computed, ever>>
    /\ UNCHANGED <<procs, cvars, svars>>

(***************************************************************************)
(* __update_mappings: for the global file and then the user's file, read   *)
(* the whole mapping, add the combination, write the whole mapping back.   *)
(* open(path, "w") empties the file before json.dump fills it.             *)
(***************************************************************************)
\* an update that takes the user's file first and the global file second
UserFirst(t) == IF inv[t].pc \in {"read_global", "open_global", "dump_global"}
                THEN User(t) ELSE Global

\* the file __update_mappings is working on
ScopeAt(t) == IF inv[t].pc \in {"read_global", "open_global", "dump_global"}
              THEN Global ELSE User(t)

\* lines 222-227 and 233-238
ReadAndAdd(t) ==
    /\ inv[t].pc \in {"read_global", "read_user"}
    /\ LET r == inv[t]
       IN  inv' = [inv EXCEPT ![t] =
                     [r EXCEPT !.pc = IF r.pc = "read_global" THEN "open_global"
                                      ELSE "open_user",
                               !.mappings = AddCombination(ReadMappings(ledger[ScopeAt(t)]),
                                                           r.pdf_cid, DbCombination(Db(t)))]]
    /\ UNCHANGED <<ledger, nodes, edges, store, gitrepo, tmp, convert_cache, chunk_cache,
                   ncalls, faults, computed, ever>>
    /\ UNCHANGED <<procs, cvars, svars>>

\* line 207: open(mapping_file_path, "w")
OpenMappings(t) ==
    /\ inv[t].pc \in {"open_global", "open_user"}
    /\ ledger' = [ledger EXCEPT ![ScopeAt(t)] = Garbled]
    /\ inv' = [inv EXCEPT ![t] =
                 [@ EXCEPT !.pc = IF inv[t].pc = "open_global" THEN "dump_global"
                                  ELSE "dump_user",
                           !.ledger_writes = @ + 1]]
    /\ UNCHANGED <<nodes, edges, store, gitrepo, tmp, convert_cache, chunk_cache,
                   ncalls, faults, computed, ever>>
    /\ UNCHANGED <<procs, cvars, svars>>

\* line 208: json.dump(mappings, file); after the user's file the
\* iteration is over
WriteMappings(t) ==
    /\ inv[t].pc \in {"dump_global", "dump_user"}
    /\ LET r == inv[t]
           scope == ScopeAt(t)
       IN  /\ ledger' = [ledger EXCEPT ![scope] = Stored(r.mappings)]
           /\ ever' = [ever EXCEPT ![scope] = @ \cup Entries(r.mappings)]
           /\ inv' = [inv EXCEPT ![t] =
                        IF r.pc = "dump_global"
                        THEN [r EXCEPT !.pc = "read_user"]
                        ELSE [r EXCEPT !.pc = "next_db", !.i = @ + 1,
                                       !.marked = @ \cup {<<r.pdf_cid, DbCombination(Db(t))>>}]]
    /\ UNCHANGED <<nodes, edges, store, gitrepo, tmp, convert_cache, chunk_cache,
                   ncalls, faults, computed>>
    /\ UNCHANGED <<procs, cvars, svars>>

\* lines 189-196: open() or json.load raises in __read_mappings as called
\* from __update_mappings; the exception is caught and {} is the mapping
ReadMappingsFails(t) ==
    /\ inv[t].pc \in {"read_global", "read_user"}
    /\ faults < MaxFaults
    /\ faults' = faults + 1
    /\ LET r == inv[t]
       IN  inv' = [inv EXCEPT ![t] =
                     [r EXCEPT !.pc = IF r.pc = "read_global" THEN "open_global"
                                      ELSE "open_user",
                               !.mappings = AddCombination(EmptyMap, r.pdf_cid,
                                                           DbCombination(Db(t))),
                               !.faulted = TRUE, !.ledger_errors = @ + 1]]
    /\ UNCHANGED <<ledger, nodes, edges, store, gitrepo, tmp, convert_cache, chunk_cache,
                   ncalls, computed, ever>>
    /\ UNCHANGED <<procs, cvars, svars>>

\* lines 205-211: os.makedirs, open() or json.dump raises in
\* __write_mappings; the exception is caught and logged, the file stays as
\* it is (empty when open() had succeeded) and __update_mappings goes on
WriteMappingsFails(t) ==
    /\ inv[t].pc \in {"open_global", "dump_global", "open_user", "dump_user"}
    /\ faults < MaxFaults
    /\ faults' = faults + 1
    /\ LET r == inv[t]
       IN  inv' = [inv EXCEPT ![t] =
                     IF r.pc \in {"open_global", "dump_global"}
                     THEN [r EXCEPT !.pc = "read_user", !.faulted = TRUE,
                                    !.ledger_errors = @ + 1]
                     ELSE [r EXCEPT !.pc = "next_db", !.i = @ + 1, !.faulted = TRUE,
                                    !.ledger_errors = @ + 1,
                                    !.marked = @ \cup {<<r.pdf_cid, DbCombination(Db(t))>>}]]
    /\ UNCHANGED <<ledger, nodes, edges, store, gitrepo, tmp, convert_cache, chunk_cache,
                   ncalls, computed, ever>>
    /\ UNCHANGED <<procs, cvars, svars>>

\* a step in which a read or a write of a ledger file fails
LedgerFault(t) ==
    \/ ReadMappingsFails(t)
    \/ WriteMappingsFails(t)

\* one step of an invocation that is under way
Step(t) ==
    \/ UploadPdf(t)
    \/ NextDb(t)
    \/ FindConversion(t)
    \/ Convert(t)
    \/ UploadText(t)
    \/ LinkText(t)
    \/ Chunk(t)
    \/ WriteChunk(t)
    \/ UploadChunk(t)
    \/ LinkChunk(t)
    \/ Embed(t)
    \/ UploadEmbedding(t)
    \/ LinkEmbedding(t)
    \/ ReadAndAdd(t)
    \/ OpenMappings(t)
    \/ WriteMappings(t)

\* a step in which the environment fails the invocation
Fault(t) ==
    \/ UploadPdfFails(t)
    \/ FetchFails(t)
    \/ ConvertFails(t)
    \/ UploadFails(t)
    \/ Raise(t)

(***************************************************************************)
(* The requests.                                                           *)
(***************************************************************************)
Config(c, k, e) == [converter |-> c, chunker |-> k, embedder |-> e]

Configs == {Config("marker", "paragraph", "bge"),
            Config("marker", "sentence", "bge"),
            Config("marker", "fixed_length", "bge"),
            Config("pdf2md", "paragraph", "bge")}

Requests == UNION {[1..n -> Configs] : n \in 1..MaxRequest}

PInit ==
    /\ inv = [t \in Invocations |-> IdleInv]
    /\ ledger \in [Scopes -> {Missing}]
    /\ nodes = {AuthorCid(o) : o \in Objects}
    /\ edges = {}
    /\ store = {AuthorKey(o) : o \in Objects}
    /\ gitrepo = [g \in GitPaths |-> {}]
    /\ tmp = [u \in Users |-> CHOOSE k \in {AuthorKey(o) : o \in Objects} :
                                 \E o \in Objects : UserEmail(o) = u /\ AuthorKey(o) = k]
    /\ convert_cache = [o \in AllObjects |-> EmptyMap]
    /\ chunk_cache = [o \in AllObjects |-> EmptyMap]
    /\ ncalls = 0
    /\ faults = 0
    /\ computed = {}
    /\ ever = [s \in Scopes |-> {}]
    /\ procs = [o \in AllObjects |-> Constructed(AuthorCid(o))]

(***************************************************************************)
(* The converters marker() and markitdown(): module-level state behind a   *)
(* lock each, loaded on first use.                                         *)
(***************************************************************************)
Threads == {"t1", "t2"}
Locked == {"marker", "markitdown"}
MaxConversions == 3
MaxPdfs == 2

IdleThread == [pc |-> "idle", fn |-> "marker", converter |-> "None", left |-> 0]

\* the positions inside "with _marker_lock:" / "with _markitdown_lock:"
Initialising == {"load_models", "build_converter", "build_instance"}
Converting == {"convert"}
InLock == {"check", "use"} \cup Initialising \cup Converting

CInit ==
    /\ cthr = [t \in Threads |-> IdleThread]
    /\ holder = [l \in Locked |-> "free"]
    /\ marker_models = "None"
    /\ marker_converter = "None"
    /\ markitdown_instance = "None"
    /\ loads = [l \in Locked |-> 0]

\* VectorDatabaseManager.__init__: self.db_names, one empty collection each
db_names == {"marker_sentence_bge", "openai_paragraph_openai"}
NoCall == [op |-> "none"]

\* no file at WHITELIST_PATH
MissingFile == [exists |-> FALSE, lines |-> <<>>]

\* the services as constructed: empty collections, the reward table as
\* _create_schema_and_table leaves it, OWNER_ADDRESS set, nothing sent, no
\* whitelist file
SInit ==
    /\ collections = [n \in db_names |-> {}]
    /\ vdb_last = NoCall
    /\ user_rewards = <<>>
    /\ now = 1
    /\ rew_last = NoCall
    /\ owner_address = "0xOwner"
    /\ sent = <<>>
    /\ tok_last = NoCall
    /\ whitelist_file = MissingFile
    /\ auth_last = NoCall

Init == PInit /\ CInit /\ SInit

\* The first call of a run is made on o1 with d1 and g1: the names of the
\* objects, documents and repositories are interchangeable.
CallObjects == IF ncalls = 0 THEN {"o1"} ELSE Objects
CallGitPaths == IF ncalls = 0 THEN {"g1"} ELSE GitPaths

\* process() invocations one after the other
Next ==
    \/ \E o \in CallObjects, doc \in {"d1"}, dbs \in Requests, g \in CallGitPaths :
          Start(1, o, doc, dbs, g, TRUE)
    \/ Step(1)
    \/ Fault(1)

Spec == Init /\ [][Next]_vars

\* Two process() invocations that interleave, each with one configuration
ConcRequests == {<<Config("marker", "fixed_length", "bge")>>,
                 <<Config("marker", "paragraph", "bge")>>}

\* Invocation 1 is made on o1 with d1 and g1 (the names are interchangeable),
\* invocation 2 on the object of the other user
NextConc ==
    \/ \E dbs \in ConcRequests :
          /\ inv[1].pc = "idle"
          /\ Start(1, "o1", "d1", dbs, "g1", FALSE)
    \/ \E doc \in Docs, dbs \in ConcRequests, g \in GitPaths :
          /\ inv[2].pc = "idle"
          /\ Start(2, "o2", doc, dbs, g, FALSE)
    \/ \E t \in Invocations : Step(t)

SpecConc == Init /\ [][NextConc]_vars

\* Two process() invocations on the same Processor object (one user, one
\* tmp.txt, one pair of caches) that interleave
NextShared ==
    \/ /\ inv[1].pc = "idle"
       /\ Start(1, "o1", "d1", <<Config("marker", "fixed_length", "bge")>>, "g1", FALSE)
    \/ /\ inv[2].pc = "idle"
       /\ Start(2, "o1", "d2", <<Config("marker", "fixed_length", "bge")>>, "g2", FALSE)
    \/ \E t \in Invocations : Step(t)

SpecShared == Init /\ [][NextShared]_vars

\* process() calls one after the other on one Processor object, for either
\* document (the first call is for d1 in g1: the names are interchangeable)
CallDocs == IF ncalls = 0 THEN {"d1"} ELSE Docs

NextSeq ==
    \/ \E doc \in CallDocs, dbs \in Requests, g \in CallGitPaths :
          Start(1, "o1", doc, dbs, g, TRUE)
    \/ Step(1)
    \/ Fault(1)

SpecSeq == Init /\ [][NextSeq]_vars

\* Two interleaved invocations on two Processor objects of one user: each
\* object has its caches, both use temp/<user_email>/tmp.txt
NextSameUser ==
    \/ /\ inv[1].pc = "idle"
       /\ Start(1, "o1", "d1", <<Config("marker", "fixed_length", "bge")>>, "g1", FALSE)
    \/ /\ inv[2].pc = "idle"
       /\ Start(2, "o3", "d2", <<Config("marker", "fixed_length", "bge")>>, "g2", FALSE)
    \/ \E t \in Invocations : Step(t)

SpecSameUser == Init /\ [][NextSameUser]_vars

\* Calls whose list holds configurations with underscores in their names
NextKeys ==
    \/ \E dbs \in [1..2 -> {Config("marker", "fixed_length", "bge"),
                             Config("marker", "fixed", "length_bge"),
                             Config("marker", "paragraph", "bge")}] :
          Start(1, "o1", "d1", dbs, "g1", TRUE)
    \/ Step(1)

SpecKeys == Init /\ [][NextKeys]_vars

\* A call that returned with a document CID, and then the same call again:
\* the same object, document and list, in either repository
NextRerun ==
    \/ \E dbs \in Requests :
          /\ inv[1].pc = "idle"
          /\ Start(1, "o1", "d1", dbs, "g1", TRUE)
    \/ \E g \in GitPaths :
          /\ inv[1].pc = "done" /\ inv[1].pdf_cid # ""
          /\ inv[2].pc = "idle"
          /\ Start(2, inv[1].o, inv[1].pdf_path, inv[1].databases, g, TRUE)
    \/ \E t \in Invocations : Step(t)
    \/ \E t \in Invocations : Fault(t)

SpecRerun == Init /\ [][NextRerun]_vars

\* process() invocations one after the other, in an environment in which
\* reads and writes of the ledger files can fail as well
NextLedgerFaults ==
    \/ \E o \in CallObjects, doc \in {"d1"}, dbs \in Requests, g \in CallGitPaths :
          Start(1, o, doc, dbs, g, TRUE)
    \/ Step(1)
    \/ Fault(1)
    \/ LedgerFault(1)

SpecLedgerFaults == Init /\ [][NextLedgerFaults]_vars

\* Two interleaved invocations on one Processor object, the first with two
\* configurations that share the converter and the chunker, the second for
\* another document with a converter name that is not registered
SharedVariants == <<Config("marker", "fixed_length", "bge"),
                    Config("marker", "fixed_length", "openai")>>

NextSharedVariants ==
    \/ /\ inv[1].pc = "idle"
       /\ Start(1, "o1", "d1", SharedVariants, "g1", FALSE)
    \/ /\ inv[2].pc = "idle"
       /\ Start(2, "o1", "d2", <<Config("pdf2md", "paragraph", "bge")>>, "g2", FALSE)
    \/ \E t \in Invocations : Step(t)

SpecSharedVariants == Init /\ [][NextSharedVariants]_vars

(***************************************************************************)
(* Processor.__init__: write the author's public key to tmp.txt, upload    *)
(* the file, keep the CID as self.author_cid, register it as a node.       *)
(* __upload_text_to_lighthouse is called directly: nothing catches what it *)
(* raises.                                                                 *)
(***************************************************************************)
\* an author upload whose failure is swallowed, the CID being ""
SwallowedAuthorUpload(ok, content) ==
    [st |-> "uploaded", author_cid |-> IF ok THEN Cid(content) ELSE ""]

\* lines 86-88 with 107: the object after the upload request
AuthorUpload(ok, content) ==
    IF ok THEN [st |-> "uploaded", author_cid |-> Cid(content)]
    ELSE [st |-> "failed", author_cid |-> ""]

\* lines 52-53 and 82: fresh caches, the key written to tmp.txt
CtorWrite(o) ==
    /\ procs[o].st = "none"
    /\ procs' = [procs EXCEPT ![o] = [@ EXCEPT !.st = "written"]]
    /\ tmp' = [tmp EXCEPT ![UserEmail(o)] = AuthorKey(o)]
    /\ convert_cache' = [convert_cache EXCEPT ![o] = EmptyMap]
    /\ chunk_cache' = [chunk_cache EXCEPT ![o] = EmptyMap]
    /\ UNCHANGED <<inv, ledger, nodes, edges, store, gitrepo, ncalls, faults,
                   computed, ever>>
    /\ UNCHANGED <<cvars, svars>>

\* lines 86-88: the upload succeeds
CtorUpload(o) ==
    /\ procs[o].st = "written"
    /\ procs' = [procs EXCEPT ![o] = AuthorUpload(TRUE, tmp[UserEmail(o)])]
    /\ store' = store \cup {tmp[UserEmail(o)]}
    /\ UNCHANGED <<inv, ledger, nodes, edges, gitrepo, tmp, convert_cache, chunk_cache,
                   ncalls, faults, computed, ever>>
    /\ UNCHANGED <<cvars, svars>>

\* lines 86-88: the request fails or raise_for_status raises (line 107)
CtorUploadFails(o) ==
    /\ procs[o].st = "written"
    /\ faults < MaxFaults
    /\ faults' = faults + 1
    /\ procs' = [procs EXCEPT ![o] = AuthorUpload(FALSE, tmp[UserEmail(o)])]
    /\ UNCHANGED <<inv, ledger, nodes, edges, store, gitrepo, tmp, convert_cache,
                   chunk_cache, ncalls, computed, ever>>
    /\ UNCHANGED <<cvars, svars>>

\* line 90: self.graph_db.add_ipfs_node(self.author_cid)
CtorAddNode(o) ==
    /\ procs[o].st = "uploaded"
    /\ procs' = [procs EXCEPT ![o] = [@ EXCEPT !.st = "ready"]]
    /\ nodes' = nodes \cup {procs[o].author_cid}
    /\ UNCHANGED <<inv, ledger, edges, store, gitrepo, tmp, convert_cache, chunk_cache,
                   ncalls, faults, computed, ever>>
    /\ UNCHANGED <<cvars, svars>>

\* Nothing is constructed yet: no author node, no tmp.txt
CtorInit ==
    /\ inv = [t \in Invocations |-> IdleInv]
    /\ ledger = [s \in Scopes |-> Missing]
    /\ nodes = {}
    /\ edges = {}
    /\ store = {}
    /\ gitrepo = [g \in GitPaths |-> {}]
    /\ tmp = [u \in Users |-> ""]
    /\ convert_cache = [o \in AllObjects |-> EmptyMap]
    /\ chunk_cache = [o \in AllObjects |-> EmptyMap]
    /\ ncalls = 0
    /\ faults = 0
    /\ computed = {}
    /\ ever = [s \in Scopes |-> {}]
    /\ procs = [o \in AllObjects |-> NotConstructed]
    /\ CInit
    /\ SInit

\* Processor objects are constructed, and process() is called on one that
\* exists
NextCtor ==
    \/ \E o \in Objects : CtorWrite(o)
    \/ \E o \in Objects : CtorUpload(o)
    \/ \E o \in Objects : CtorUploadFails(o)
    \/ \E o \in Objects : CtorAddNode(o)
    \/ \E o \in Objects :
          /\ procs[o].st = "ready"
          /\ Start(1, o, "d1", <<Config("marker", "fixed_length", "bge")>>, "g1", TRUE)
    \/ Step(1)

SpecCtor == CtorInit /\ [][NextCtor]_vars

\* marker(input_path) / markitdown(input_path) is called; lines 74-96 and
\* 189-205 accept the path (a file, or for marker a folder of n PDF files)
Call(t, fn, n) ==
    /\ cthr[t].pc \in {"idle", "returned", "raised"}
    /\ ncalls < MaxConversions
    /\ ncalls' = ncalls + 1
    /\ cthr' = [cthr EXCEPT ![t] = [IdleThread EXCEPT !.pc = "acquire", !.fn = fn,
                                                       !.left = n]]
    /\ UNCHANGED <<holder, marker_models, marker_converter, markitdown_instance, loads>>
    /\ UNCHANGED <<inv, ledger, nodes, edges, store, gitrepo, tmp, convert_cache,
                   chunk_cache, faults, computed, ever, procs>>
    /\ UNCHANGED svars

\* a lock that lets everyone in
LockIgnored(l) == TRUE

\* lines 101 and 208: with _marker_lock / with _markitdown_lock
LockFree(l) == holder[l] = "free"

Acquire(t) ==
    /\ cthr[t].pc = "acquire"
    /\ LockFree(cthr[t].fn)
    /\ holder' = [holder EXCEPT ![cthr[t].fn] = t]
    /\ cthr' = [cthr EXCEPT ![t] = [@ EXCEPT !.pc = "check"]]
    /\ UNCHANGED <<marker_models, marker_converter, markitdown_instance, loads>>
    /\ UNCHANGED <<pvars, svars>>

\* line 102: if _marker_models is None or _marker_converter is None
MarkerNeedsInit == marker_models = "None" \/ marker_converter = "None"

\* lines 102 and 209: decide whether to initialise
Check(t) ==
    /\ cthr[t].pc = "check"
    /\ cthr' = [cthr EXCEPT ![t] =
                  [@ EXCEPT !.pc = IF cthr[t].fn = "marker"
                                   THEN (IF MarkerNeedsInit THEN "load_models" ELSE "use")
                                   ELSE (IF markitdown_instance = "None"
                                         THEN "build_instance" ELSE "use")]]
    /\ UNCHANGED <<holder, marker_models, marker_converter, markitdown_instance, loads>>
    /\ UNCHANGED <<pvars, svars>>

\* line 104: _marker_models = create_model_dict()
LoadModels(t) ==
    /\ cthr[t].pc = "load_models"
    /\ marker_models' = "loaded"
    /\ loads' = [loads EXCEPT !["marker"] = @ + 1]
    /\ cthr' = [cthr EXCEPT ![t] = [@ EXCEPT !.pc = "build_converter"]]
    /\ UNCHANGED <<holder, marker_converter, markitdown_instance>>
    /\ UNCHANGED <<pvars, svars>>

\* lines 105-116: _marker_converter = PdfConverter(...)
BuildConverter(t) ==
    /\ cthr[t].pc = "build_converter"
    /\ marker_converter' = "built"
    /\ cthr' = [cthr EXCEPT ![t] = [@ EXCEPT !.pc = "use"]]
    /\ UNCHANGED <<holder, marker_models, markitdown_instance, loads>>
    /\ UNCHANGED <<pvars, svars>>

\* line 211: _markitdown_instance = MarkItDown(enable_plugins=False)
BuildInstance(t) ==
    /\ cthr[t].pc = "build_instance"
    /\ markitdown_instance' = "built"
    /\ loads' = [loads EXCEPT !["markitdown"] = @ + 1]
    /\ cthr' = [cthr EXCEPT ![t] = [@ EXCEPT !.pc = "use"]]
    /\ UNCHANGED <<holder, marker_models, marker_converter>>
    /\ UNCHANGED <<pvars, svars>>

\* lines 120 and 215: converter = _marker_converter / md = _markitdown_instance
Use(t) ==
    /\ cthr[t].pc = "use"
    /\ cthr' = [cthr EXCEPT ![t] =
                  [@ EXCEPT !.pc = "convert",
                            !.converter = IF cthr[t].fn = "marker" THEN marker_converter
                                          ELSE markitdown_instance]]
    /\ UNCHANGED <<holder, marker_models, marker_converter, markitdown_instance, loads>>
    /\ UNCHANGED <<pvars, svars>>

\* lines 122-127 and 219-220: convert one file; after the last one leave
\* the with block, which releases the lock, and return
ConvertFile(t) ==
    /\ cthr[t].pc = "convert"
    /\ IF cthr[t].left > 1
       THEN /\ cthr' = [cthr EXCEPT ![t] = [@ EXCEPT !.left = @ - 1]]
            /\ UNCHANGED holder
       ELSE /\ cthr' = [cthr EXCEPT ![t] = [@ EXCEPT !.pc = "returned", !.left = 0]]
            /\ holder' = [holder EXCEPT ![cthr[t].fn] = "free"]
    /\ UNCHANGED <<marker_models, marker_converter, markitdown_instance, loads>>
    /\ UNCHANGED <<pvars, svars>>

\* an exception that leaves the function with the lock still held
ThrowKeepingLock(t) ==
    /\ cthr[t].pc \in Initialising \cup Converting
    /\ faults < MaxFaults
    /\ faults' = faults + 1
    /\ cthr' = [cthr EXCEPT ![t] =
                  [@ EXCEPT !.pc = IF cthr[t].fn = "marker" THEN "raised" ELSE "returned"]]
    /\ UNCHANGED <<holder, marker_models, marker_converter, markitdown_instance, loads>>
    /\ UNCHANGED <<inv, ledger, nodes, edges, store, gitrepo, tmp, convert_cache,
                   chunk_cache, ncalls, computed, ever, procs>>
    /\ UNCHANGED svars

\* an exception inside the with block (model load, construction or
\* conversion): the block is left and the lock released; marker() lets the
\* exception out, markitdown() catches it and returns ""
Throw(t) ==
    /\ cthr[t].pc \in Initialising \cup Converting
    /\ faults < MaxFaults
    /\ faults' = faults + 1
    /\ holder' = [holder EXCEPT ![cthr[t].fn] = "free"]
    /\ cthr' = [cthr EXCEPT ![t] =
                  [@ EXCEPT !.pc = IF cthr[t].fn = "marker" THEN "raised" ELSE "returned"]]
    /\ UNCHANGED <<marker_models, marker_converter, markitdown_instance, loads>>
    /\ UNCHANGED <<inv, ledger, nodes, edges, store, gitrepo, tmp, convert_cache,
                   chunk_cache, ncalls, computed, ever, procs>>
    /\ UNCHANGED svars

\* concurrent calls of the converters
NextConv ==
    \E t \in Threads :
        \/ \E n \in 1..MaxPdfs : Call(t, "marker", n)
        \/ Call(t, "markitdown", 1)
        \/ Acquire(t)
        \/ Check(t)
        \/ LoadModels(t)
        \/ BuildConverter(t)
        \/ BuildInstance(t)
        \/ Use(t)
        \/ ConvertFile(t)
        \/ Throw(t)

SpecConv == Init /\ [][NextConv]_vars

\* fair scheduling: a thread that is inside the with block goes on (the
\* statements there terminate), and a thread waiting at lines 101 / 208
\* gets the lock if it is free again and again
ConvFairness ==
    \A t \in Threads :
        /\ SF_vars(Acquire(t))
        /\ WF_vars(\/ Check(t)
                   \/ LoadModels(t)
                   \/ BuildConverter(t)
                   \/ BuildInstance(t)
                   \/ Use(t)
                   \/ ConvertFile(t))

SpecConvFair == Init /\ [][NextConv]_vars /\ ConvFairness

(***************************************************************************)
(* VectorDatabaseManager: ChromaDB collections behind argument checks.     *)
(***************************************************************************)
MaxBatch == 2
\* metadata dicts with and without the key 'content_cid'
Metadatas == {[content_cid |-> "c1"], [title |-> "t1"]}

SeqsUpTo(S, n) == UNION {[1..k -> S] : k \in 0..n}

\* collection.add(documents, embeddings, ids, metadatas): ChromaDB refuses
\* empty lists, lists of different lengths and an id given twice; ids that
\* are in the collection already are left as they are
AddRefused(documents, embeddings, ids) ==
    \/ Len(ids) = 0
    \/ Len(documents) # Len(ids)
    \/ Len(embeddings) # Len(ids)
    \/ \E a \in 1..Len(ids), b \in 1..Len(ids) : a # b /\ ids[a] = ids[b]

CollectionAdd(collection, documents, ids) ==
    collection \cup
        {[id |-> ids[k], document |-> documents[k]] : k \in
            {k \in 1..Len(ids) : \A d \in collection : d.id # ids[k]}}

\* lines 71 and 97: if db_name not in self.db_names
Exists(db_name) == db_name \in db_names

\* a length check that accepts everything
AnyLength(embeddings, metadatas, doc_ids) == TRUE

\* line 100: len(embeddings) == len(metadatas) == len(doc_ids)
SameLength(embeddings, metadatas, doc_ids) ==
    Len(embeddings) = Len(metadatas) /\ Len(metadatas) = Len(doc_ids)

VdbCall(op, db_name, embeddings, metadatas, doc_ids, outcome, touched) ==
    [op |-> op, db_name |-> db_name, embeddings |-> embeddings,
     metadatas |-> metadatas, doc_ids |-> doc_ids, outcome |-> outcome,
     touched |-> touched, before |-> collections]

\* insert_document(db_name, embedding, metadata, doc_id), lines 61-85;
\* fails says whether the ChromaDB request fails
insert_document(db_name, embedding, metadata, doc_id, fails) ==
    /\ IF ~Exists(db_name)
       THEN /\ vdb_last' = VdbCall("insert_document", db_name, <<embedding>>,
                                    <<metadata>>, <<doc_id>>, "ValueError", FALSE)
            /\ UNCHANGED collections
       ELSE \* line 75 get_collection; lines 76-85: everything raised inside
            \* the try, the KeyError of metadata["content_cid"] included, is
            \* printed and dropped
            /\ vdb_last' = VdbCall("insert_document", db_name, <<embedding>>,
                                    <<metadata>>, <<doc_id>>, "returned", TRUE)
            /\ IF "content_cid" \notin DOMAIN metadata \/ fails
               THEN UNCHANGED collections
               ELSE collections' =
                      [collections EXCEPT ![db_name] =
                          CollectionAdd(@, <<metadata.content_cid>>, <<doc_id>>)]
    /\ UNCHANGED <<user_rewards, now, rew_last, owner_address, sent, tok_last,
                   whitelist_file, auth_last>>
    /\ UNCHANGED <<pvars, cvars>>

\* batch_insert_documents(db_name, embeddings, metadatas, doc_ids), lines
\* 87-120
batch_insert_documents(db_name, embeddings, metadatas, doc_ids, fails) ==
    /\ IF ~Exists(db_name)
       THEN /\ vdb_last' = VdbCall("batch_insert_documents", db_name, embeddings,
                                    metadatas, doc_ids, "ValueError", FALSE)
            /\ UNCHANGED collections
       ELSE IF ~SameLength(embeddings, metadatas, doc_ids)
       THEN /\ vdb_last' = VdbCall("batch_insert_documents", db_name, embeddings,
                                    metadatas, doc_ids, "ValueError", FALSE)
            /\ UNCHANGED collections
       ELSE IF embeddings = <<>>
       THEN \* line 103: not embeddings
            /\ vdb_last' = VdbCall("batch_insert_documents", db_name, embeddings,
                                    metadatas, doc_ids, "returned", FALSE)
            /\ UNCHANGED collections
       ELSE IF \E k \in 1..Len(metadatas) : "content_cid" \notin DOMAIN metadatas[k]
       THEN \* line 107, outside the try
            /\ vdb_last' = VdbCall("batch_insert_documents", db_name, embeddings,
                                    metadatas, doc_ids, "KeyError", FALSE)
            /\ UNCHANGED collections
       ELSE LET documents == [k \in 1..Len(metadatas) |-> metadatas[k].content_cid]
            IN  IF fails \/ AddRefused(documents, embeddings, doc_ids)
                THEN \* lines 118-120: raised again as Exception
                     /\ vdb_last' = VdbCall("batch_insert_documents", db_name,
                                             embeddings, metadatas, doc_ids,
                                             "Exception", TRUE)
                     /\ UNCHANGED collections
                ELSE /\ vdb_last' = VdbCall("batch_insert_documents", db_name,
                                             embeddings, metadatas, doc_ids,
                                             "returned", TRUE)
                     /\ collections' =
                           [collections EXCEPT ![db_name] =
                               CollectionAdd(@, documents, doc_ids)]
    /\ UNCHANGED <<user_rewards, now, rew_last, owner_address, sent, tok_last,
                   whitelist_file, auth_last>>
    /\ UNCHANGED <<pvars, cvars>>

NextChroma ==
    \/ \E db_name \in db_names \cup {"markitdown_sentence_bge"},
          metadata \in Metadatas, doc_id \in {"id1", "id2"}, fails \in BOOLEAN :
          insert_document(db_name, "e", metadata, doc_id, fails)
    \/ \E db_name \in db_names \cup {"markitdown_sentence_bge"},
          embeddings \in SeqsUpTo({"e"}, MaxBatch),
          metadatas \in SeqsUpTo(Metadatas, MaxBatch),
          doc_ids \in SeqsUpTo({"id1", "id2"}, MaxBatch), fails \in BOOLEAN :
          batch_insert_documents(db_name, embeddings, metadatas, doc_ids, fails)

SpecChroma == Init /\ [][NextChroma]_vars

(***************************************************************************)
(* TokenRewarder: the reward table of one database and the reward schemes. *)
(***************************************************************************)
MaxRows == 2
MaxTime == 2
PublicKeys == {"pkA", "pkB"}

\* the tables the database can hold when a call is made: ids are given by
\* the SERIAL column
Tables ==
    UNION {{[k \in 1..n |-> [id |-> k, public_key |-> pk[k], job_count |-> jc[k],
                             time_stamp |-> 0]] :
               pk \in [1..n -> PublicKeys],
               jc \in [1..n -> {-1, 0, 1, 49, 50, 100}]} :
           n \in 0..MaxRows}

InitRewards ==
    /\ PInit
    /\ CInit
    /\ collections = [n \in db_names |-> {}]
    /\ vdb_last = NoCall
    /\ user_rewards \in Tables
    /\ now = 1
    /\ rew_last = NoCall
    /\ owner_address = "0xOwner"
    /\ sent = <<>>
    /\ tok_last = NoCall
    /\ whitelist_file = MissingFile
    /\ auth_last = NoCall

\* lines 201-212: CREATE TABLE default_schema.user_rewards declares
\* id SERIAL PRIMARY KEY and no other key: public_key carries no unique
\* constraint
\* INSERT ... VALUES (public_key, job_count, CURRENT_TIMESTAMP)
\* ON CONFLICT (public_key) DO UPDATE SET job_count = job_count +
\* EXCLUDED.job_count (lines 241-246).  PostgreSQL refuses the statement when
\* no unique constraint matches the conflict target; otherwise the row of
\* that key is updated, or a new row is appended
InsertRefused == "public_key" \notin {"id"}

InsertOnConflict(rows, public_key, job_count) ==
    IF \E k \in 1..Len(rows) : rows[k].public_key = public_key
    THEN [k \in 1..Len(rows) |->
            IF rows[k].public_key = public_key
            THEN [rows[k] EXCEPT !.job_count = @ + job_count]
            ELSE rows[k]]
    ELSE Append(rows, [id |-> Len(rows) + 1, public_key |-> public_key,
                       job_count |-> job_count, time_stamp |-> now])

\* lines 636-641: the default tiers
DefaultTiers == (100 :> 5) @@ (50 :> 3) @@ (0 :> 1)
\* the tiers argument: None, or a dict from thresholds to rates
NoTiers == [given |-> FALSE, items |-> DefaultTiers]
TierChoices ==
    {NoTiers} \cup {[given |-> TRUE, items |-> items] :
                       items \in {DefaultTiers, (10 :> 2), (50 :> 1) @@ (0 :> 4)}}
NoRewards == [public_key \in {} |-> 0]

RewCall(op, public_key, job_count, tiers, outcome, rewards) ==
    [op |-> op, public_key |-> public_key, job_count |-> job_count,
     tiers |-> tiers, outcome |-> outcome, rewards |-> rewards,
     before |-> user_rewards, at |-> now]

\* add_reward_to_user(public_key, db_name, job_count), lines 225-259;
\* connects says whether _connect returns a connection
add_reward_to_user(public_key, job_count, connects) ==
    /\ IF ~connects
       THEN /\ rew_last' = RewCall("add_reward_to_user", public_key, job_count,
                                    NoTiers, "no_connection", NoRewards)
            /\ UNCHANGED user_rewards
       ELSE IF InsertRefused
       THEN \* lines 254-255: the error is logged
            /\ rew_last' = RewCall("add_reward_to_user", public_key, job_count,
                                    NoTiers, "error", NoRewards)
            /\ UNCHANGED user_rewards
       ELSE /\ rew_last' = RewCall("add_reward_to_user", public_key, job_count,
                                    NoTiers, "returned", NoRewards)
            /\ user_rewards' = InsertOnConflict(user_rewards, public_key, job_count)
    /\ UNCHANGED <<collections, vdb_last, now, owner_address, sent, tok_last,
                   whitelist_file, auth_last>>
    /\ UNCHANGED <<pvars, cvars>>

\* time passes on the database server
Tick ==
    /\ now < MaxTime
    /\ now' = now + 1
    /\ UNCHANGED <<collections, vdb_last, user_rewards, rew_last, owner_address, sent,
                   tok_last, whitelist_file, auth_last>>
    /\ UNCHANGED <<pvars, cvars>>

\* SELECT public_key, SUM(job_count) ... GROUP BY public_key (lines 649-655)
RECURSIVE SumJobs(_, _)
SumJobs(rows, public_key) ==
    IF rows = <<>> THEN 0
    ELSE (IF Head(rows).public_key = public_key THEN Head(rows).job_count ELSE 0)
         + SumJobs(Tail(rows), public_key)

GroupKeys(rows) == {rows[k].public_key : k \in 1..Len(rows)}

\* the tiers from the lowest threshold up
RECURSIVE AscendingTiers(_)
AscendingTiers(tiers) ==
    IF DOMAIN tiers = {} THEN <<>>
    ELSE LET th == CHOOSE x \in DOMAIN tiers : \A y \in DOMAIN tiers : x <= y
         IN  <<<<th, tiers[th]>>>> \o
             AscendingTiers([x \in DOMAIN tiers \ {th} |-> tiers[x]])

\* line 662: sorted(tiers.items(), reverse=True)
RECURSIVE SortedTiers(_)
SortedTiers(tiers) ==
    IF DOMAIN tiers = {} THEN <<>>
    ELSE LET th == CHOOSE x \in DOMAIN tiers : \A y \in DOMAIN tiers : x >= y
         IN  <<<<th, tiers[th]>>>> \o
             SortedTiers([x \in DOMAIN tiers \ {th} |-> tiers[x]])

\* lines 661-665: the rate of the first tier, in that order, whose
\* threshold total_jobs reaches; 0 when there is none
RECURSIVE RewardPerJob(_, _)
RewardPerJob(total_jobs, items) ==
    IF items = <<>> THEN 0
    ELSE IF total_jobs >= Head(items)[1] THEN Head(items)[2]
    ELSE RewardPerJob(total_jobs, Tail(items))

\* reward_users_by_tier(db_name, tiers), lines 634-679
reward_users_by_tier(tiers, connects) ==
    /\ LET used == IF ~tiers.given THEN DefaultTiers ELSE tiers.items
           rewards == [public_key \in GroupKeys(user_rewards) |->
                          SumJobs(user_rewards, public_key)
                          * RewardPerJob(SumJobs(user_rewards, public_key),
                                         SortedTiers(used))]
       IN  rew_last' = IF connects
                       THEN RewCall("reward_users_by_tier", "", 0, tiers,
                                    "returned", rewards)
                       ELSE RewCall("reward_users_by_tier", "", 0, tiers,
                                    "no_connection", NoRewards)
    /\ UNCHANGED <<collections, vdb_last, user_rewards, now, owner_address, sent,
                   tok_last, whitelist_file, auth_last>>
    /\ UNCHANGED <<pvars, cvars>>

NextRewards ==
    \/ \E public_key \in PublicKeys, job_count \in {1, 2}, connects \in BOOLEAN :
          add_reward_to_user(public_key, job_count, connects)
    \/ Tick
    \/ \E tiers \in TierChoices, connects \in BOOLEAN :
          reward_users_by_tier(tiers, connects)

SpecRewards == InitRewards /\ [][NextRewards]_vars

(***************************************************************************)
(* TokenRewarder: sending token transactions.                              *)
(***************************************************************************)
MaxSent == 2
RecipientAddresses == {"0xA", "0xB"}

\* the steps inside the try blocks (lines 270-292 and 304-333) that can
\* raise, and the case that the node accepted the transaction while the
\* call that submitted it raised
Failures == {"none", "get_transaction_count", "build_transaction", "sign_transaction",
             "send_raw_transaction", "response_lost"}

\* TokenRewarder.__init__ reads OWNER_ADDRESS from the environment: it is
\* missing, empty or set
InitTokens ==
    /\ PInit
    /\ CInit
    /\ collections = [n \in db_names |-> {}]
    /\ vdb_last = NoCall
    /\ user_rewards = <<>>
    /\ now = 1
    /\ rew_last = NoCall
    /\ owner_address \in {"None", "", "0xOwner"}
    /\ sent = <<>>
    /\ tok_last = NoCall
    /\ whitelist_file = MissingFile
    /\ auth_last = NoCall

\* Python truth value of an address: None and "" are false
Unset(address) == address \in {"None", ""}

TokCall(op, recipients, amounts, result, built) ==
    [op |-> op, recipients |-> recipients, amounts |-> amounts, result |-> result,
     built |-> built, before |-> sent]

\* lines 270-292 / 304-333: the transaction is built, signed and sent
Submit(op, fn, recipients, amounts, failure) ==
    /\ tok_last' = TokCall(op, recipients, amounts, failure = "none",
                           failure \notin {"get_transaction_count", "build_transaction"})
    /\ sent' = IF failure \in {"none", "response_lost"}
               THEN Append(sent, [from |-> owner_address, function |-> fn,
                                  recipients |-> recipients, amounts |-> amounts])
               ELSE sent

\* issue_token(recipient_address, amount), lines 261-292
issue_token(recipient_address, amount, failure) ==
    /\ Len(sent) < MaxSent
    /\ IF Unset(owner_address) \/ Unset(recipient_address)
       THEN /\ tok_last' = TokCall("issue_token", <<recipient_address>>, <<amount>>,
                                    FALSE, FALSE)
            /\ UNCHANGED sent
       ELSE Submit("issue_token", "transfer", <<recipient_address>>, <<amount>>, failure)
    /\ UNCHANGED <<collections, vdb_last, user_rewards, now, rew_last, owner_address,
                   whitelist_file, auth_last>>
    /\ UNCHANGED <<pvars, cvars>>

\* a check that only refuses empty lists
EmptyBatch(recipients, amounts) == recipients = <<>> \/ amounts = <<>>

\* line 300: not recipients or not amounts or len(recipients) != len(amounts)
InvalidBatch(recipients, amounts) ==
    recipients = <<>> \/ amounts = <<>> \/ Len(recipients) # Len(amounts)

\* batch_issue_tokens(recipients, amounts), lines 294-333
batch_issue_tokens(recipients, amounts, failure) ==
    /\ Len(sent) < MaxSent
    /\ IF Unset(owner_address) \/ InvalidBatch(recipients, amounts)
       THEN /\ tok_last' = TokCall("batch_issue_tokens", recipients, amounts,
                                    FALSE, FALSE)
            /\ UNCHANGED sent
       ELSE Submit("batch_issue_tokens", "batchDistribute", recipients, amounts, failure)
    /\ UNCHANGED <<collections, vdb_last, user_rewards, now, rew_last, owner_address,
                   whitelist_file, auth_last>>
    /\ UNCHANGED <<pvars, cvars>>

NextTokens ==
    \/ \E recipient_address \in RecipientAddresses \cup {"None", ""},
          amount \in {1, 2}, failure \in Failures :
          issue_token(recipient_address, amount, failure)
    \/ \E recipients \in SeqsUpTo(RecipientAddresses, MaxBatch),
          amounts \in SeqsUpTo({1, 2}, MaxBatch), failure \in Failures :
          batch_issue_tokens(recipients, amounts, failure)

SpecTokens == InitTokens /\ [][NextTokens]_vars

(***************************************************************************)
(* The light server: validating an email against the whitelist file.      *)
(* Strings are sequences of characters.                                    *)
(***************************************************************************)
MaxLine == 2
MaxLines == 2
Files == {MissingFile} \cup
         {[exists |-> TRUE, lines |-> ls] :
             ls \in SeqsUpTo(SeqsUpTo({"a", "A", "#", " "}, MaxLine), MaxLines)}

InitAuth ==
    /\ PInit
    /\ CInit
    /\ collections = [n \in db_names |-> {}]
    /\ vdb_last = NoCall
    /\ user_rewards = <<>>
    /\ now = 1
    /\ rew_last = NoCall
    /\ owner_address = "0xOwner"
    /\ sent = <<>>
    /\ tok_last = NoCall
    /\ whitelist_file \in Files
    /\ auth_last = NoCall

\* str.lower()
Lower(str) == [k \in 1..Len(str) |-> IF str[k] = "A" THEN "a" ELSE str[k]]

\* str.strip(): leading and trailing white space removed
RECURSIVE LStrip(_)
LStrip(str) ==
    IF str # <<>> /\ Head(str) = " " THEN LStrip(Tail(str)) ELSE str

RECURSIVE RStrip(_)
RStrip(str) ==
    IF str # <<>> /\ str[Len(str)] = " "
    THEN RStrip(SubSeq(str, 1, Len(str) - 1))
    ELSE str

Strip(str) == LStrip(RStrip(str))

\* str.startswith('#')
StartsWithHash(str) == str # <<>> /\ Head(str) = "#"

\* load_whitelisted_emails(), lines 94-102
load_whitelisted_emails ==
    IF ~whitelist_file.exists
    THEN {}
    ELSE {Strip(whitelist_file.lines[k]) : k \in
             {k \in 1..Len(whitelist_file.lines) :
                 /\ Strip(whitelist_file.lines[k]) # <<>>
                 /\ ~StartsWithHash(whitelist_file.lines[k])}}

\* validate_email(request), lines 104-122; fails says whether reading
\* the file raises, which is answered with status 500
validate_email(email, fails) ==
    /\ auth_last' =
          IF fails /\ whitelist_file.exists
          THEN [op |-> "validate_email", email |-> email, status |-> 500,
                isValid |-> FALSE]
          ELSE [op |-> "validate_email", email |-> email, status |-> 200,
                isValid |-> Lower(email) \in load_whitelisted_emails]
    /\ UNCHANGED <<collections, vdb_last, user_rewards, now, rew_last, owner_address,
                   sent, tok_last, whitelist_file>>
    /\ UNCHANGED <<pvars, cvars>>

\* the request email is an EmailStr: not empty, no blanks, letters of
\* either case
NextAuth ==
    \E email \in SeqsUpTo({"a", "A"}, MaxLine) \ {<<>>}, fails \in BOOLEAN :
        validate_email(email, fails)

SpecAuth == InitAuth /\ [][NextAuth]_vars

(***************************************************************************)
(* The claims.                                                             *)
(***************************************************************************)
HasEntry(scope, pdf_cid, db_combination) ==
    /\ ledger[scope].st = "ok"
    /\ <<pdf_cid, db_combination>> \in Entries(ledger[scope].m)

\* C1: Global dedup.  When user A's ledger records V for document D and
\* process(D, [V]) has then run for user B without any environment failure,
\* B's run made no upload and added no node and no edge, and V is recorded
\* for D in A's and in B's ledger.
C1_GlobalDedup ==
    \A V \in Configs :
        LET r == inv[1]
            D == Cid("d1")
        IN  (/\ faults = 0
             /\ r.pc = "done" /\ r.o = "o2" /\ r.pdf_path = "d1" /\ r.databases = <<V>>
             /\ HasEntry("A", D, DbCombination(V)))
            => /\ r.uploads = 0
               /\ r.added = 0
               /\ HasEntry("A", D, DbCombination(V))
               /\ HasEntry("B", D, DbCombination(V))

\* C2: At-most-once global computation.  For a document CID and a
\* db_combination, the converter, chunker and embedder are called by at most
\* one invocation of process().
C2_AtMostOnce ==
    \A x \in computed, y \in computed :
        (x[2] = y[2] /\ x[3] = y[3]) => x[1] = y[1]

\* C3: Monotonic mapping.  A ledger file that can be read holds every
\* <<document CID, db_combination>> that was ever stored in it.
C3_Monotonic ==
    \A s \in Scopes : ledger[s].st = "ok" => ever[s] \subseteq Entries(ledger[s].m)

Succ(n) == {e[2] : e \in {x \in edges : x[1] = n}}

RECURSIVE ReachableFrom(_, _)
ReachableFrom(S, k) ==
    IF k = 0 THEN S ELSE ReachableFrom(S \cup UNION {Succ(n) : n \in S}, k - 1)

DocumentNodes == {Cid(d) : d \in Docs} \cap nodes

OnCycle(n) == n \in ReachableFrom(Succ(n), Cardinality(nodes))

\* C4: Acyclicity.  No node that can be reached from a document node lies
\* on a cycle of the provenance graph (a self-loop is a cycle).
C4_Acyclic ==
    \A n \in ReachableFrom(DocumentNodes, Cardinality(nodes)) : ~OnCycle(n)

\* C5: Document-upload failure aborts the whole document.  An invocation
\* whose document upload gave no CID made no graph call, added no node and
\* no edge, called no converter, chunker or embedder and wrote no ledger file.
C5_UploadFailureAborts ==
    \A t \in Invocations :
        LET r == inv[t]
        IN  (r.run > 0 /\ r.pc # "upload_pdf" /\ r.pdf_cid = "")
            => /\ r.pc = "done"
               /\ r.graph_calls = 0 /\ r.added = 0
               /\ r.plugged = 0
               /\ r.ledger_writes = 0 /\ r.marked = {}
               /\ \A x \in computed : x[1] # r.run

C5_Witness ==
    \E t \in Invocations :
        inv[t].run > 0 /\ inv[t].pc = "done" /\ inv[t].pdf_cid = "" /\ inv[t].uploads = 1

\* C6: Skip path.  In an iteration for a combination that the global ledger
\* already records, the invocation calls no pluggable function, uploads
\* nothing, makes no graph call and leaves the caches of its object as they
\* were; when the iteration is over the global ledger file is what it was,
\* the user's ledger records the combination, and the loop is at the next
\* configuration.
C6_SkipPath ==
    \A t \in Invocations :
        LET r == inv[t]
        IN  r.skip =>
              /\ r.uploads = r.snap.uploads
              /\ r.graph_calls = r.snap.graph_calls
              /\ r.plugged = r.snap.plugged
              /\ convert_cache[r.o] = r.snap.convert_cache
              /\ chunk_cache[r.o] = r.snap.chunk_cache
              /\ r.pc \in {"read_global", "open_global", "dump_global",
                          "read_user", "open_user", "dump_user", "next_db", "done"}
              /\ r.pc \in {"next_db", "done"} =>
                    /\ ledger[Global] = r.snap.global
                    /\ HasEntry(UserEmail(r.o), r.pdf_cid,
                                DbCombination(r.databases[r.i - 1]))

C6_Witness ==
    \E t \in Invocations :
        /\ inv[t].skip /\ inv[t].pc = "next_db"
        /\ inv[t].uploads > 0
        /\ HasEntry(User(t), inv[t].pdf_cid, DbCombination(inv[t].databases[inv[t].i - 1]))

\* C7: No lost ledger updates.  Once both invocations have returned, every
\* <<document CID, db_combination>> that either of them marked complete is
\* in the global ledger.
C7_NoLostUpdates ==
    (\A t \in Invocations : inv[t].pc = "done")
    => \A t \in Invocations : \A e \in inv[t].marked : HasEntry(Global, e[1], e[2])

\* C8: Converter mutual exclusion.  A thread that is checking, initialising
\* or converting inside marker() or markitdown() holds that converter's
\* lock, so no two initialisations and no two conversions of one converter
\* overlap; and a conversion runs on an instance that was built.
C8_MutualExclusion ==
    /\ \A t \in Threads : cthr[t].pc \in InLock => holder[cthr[t].fn] = t
    /\ \A t \in Threads, u \in Threads :
          (t # u /\ cthr[t].fn = cthr[u].fn) =>
             /\ ~(cthr[t].pc \in Converting /\ cthr[u].pc \in Converting)
             /\ ~(cthr[t].pc \in Initialising /\ cthr[u].pc \in Initialising)
    /\ \A t \in Threads : cthr[t].pc \in Converting => cthr[t].converter = "built"

\* two threads are inside marker(): one converts, the other waits for the lock
C8_Witness ==
    \E t \in Threads, u \in Threads :
        /\ t # u /\ cthr[t].fn = "marker" /\ cthr[u].fn = "marker"
        /\ cthr[t].pc = "convert" /\ cthr[u].pc = "acquire"

\* C9: Initialisation at most once.  create_model_dict() completes at most
\* once in the process, and so does MarkItDown().
C9_InitOnce == \A l \in Locked : loads[l] <= 1

\* C10: Variant non-interference.  When an invocation that got a document
\* CID has ended, by returning or by an exception in configuration i, every
\* later configuration of its list is marked complete.
C10_NonInterference ==
    \A t \in Invocations :
        LET r == inv[t]
        IN  (r.pc \in {"done", "raised"} /\ r.pdf_cid # "")
            => \A n \in (r.i + 1)..Len(r.databases) :
                  <<r.pdf_cid, DbCombination(r.databases[n])>> \in r.marked

\* C11: Per-run caches are private.  Between the step that put a converted
\* text into the convert cache and the step that reads it back, the cache of
\* the invocation's object holds that text under the converter's name; and
\* while the invocation walks through its chunks, the chunk cache holds
\* these chunks under the invocation's key.
C11_CachesPrivate ==
    \A t \in Invocations :
        LET r == inv[t]
        IN  /\ r.pc \in {"upload_text", "link_text", "chunk"} =>
                 /\ Db(t).converter \in DOMAIN convert_cache[r.o]
                 /\ convert_cache[r.o][Db(t).converter] = r.text
            /\ r.pc \in {"write_chunk", "upload_chunk", "link_chunk", "embed",
                        "upload_embedding", "link_embedding"} =>
                 /\ ChunkCacheKey(Db(t)) \in DOMAIN chunk_cache[r.o]
                 /\ chunk_cache[r.o][ChunkCacheKey(Db(t))] = r.chunks

EdgesLabelled(label) == {e \in edges : e[3] = label}

Targets(es) == {e[2] : e \in es}

C13_ConversionReuse ==
    \A t \in Invocations :
        LET r == inv[t]
            N == Len(r.chunks)
        IN  r.reused =>
              /\ r.pc \notin {"convert", "upload_text", "link_text"}
              /\ r.pc = "chunk" =>
                    /\ r.cid # ""
                    /\ r.cid \in ConvertedMarkdownCids(r.pdf_cid, Db(t).converter)
                    /\ r.uploads = r.snap.uploads
                    /\ r.graph_calls = r.snap.graph_calls
                    /\ r.plugged = r.snap.plugged
              /\ r.pc = "embed" =>
                    <<r.cid, r.chunk_cid, ChunkedBy(Db(t).chunker)>> \in edges
              /\ r.pc = "read_global" =>
                    /\ r.uploads = r.snap.uploads + 2 * N
                    /\ r.graph_calls = r.snap.graph_calls + 6 * N
                    /\ r.plugged \in {r.snap.plugged + N, r.snap.plugged + N + 1}

\* the second configuration of a request reused the conversion of the first
\* and went through its chunks
C13_Witness ==
    \E t \in Invocations :
        /\ inv[t].reused /\ inv[t].pc = "read_global" /\ inv[t].i = 2
        /\ Len(inv[t].chunks) = MaxChunks
        /\ inv[t].plugged = inv[t].snap.plugged + MaxChunks + 1

LinkAfter(pc) == IF pc = "upload_text" THEN "link_text"
                 ELSE IF pc = "upload_chunk" THEN "link_chunk"
                 ELSE "link_embedding"

Recorded(t, n) ==
    LET e == <<inv[t].pdf_cid, DbCombination(inv[t].databases[n])>>
    IN  e \in inv[t].marked /\ e \in ever[Global] /\ e \in ever[User(t)]

\* C14: A variant is recorded after swallowed upload failures.  Whatever an
\* upload of a converted text, a chunk or an embedding returns, the next
\* step of the invocation is the registration of the CID it got; every
\* earlier configuration in which an upload gave the CID "" was written to
\* the global and to the user's ledger; and an invocation returns only when
\* all such configurations are behind it.
C14_RecordedDespiteFailures ==
    /\ [](\A t \in Invocations :
            /\ \A n \in inv[t].swallowed : n < inv[t].i => Recorded(t, n)
            /\ inv[t].pc = "done" => \A n \in inv[t].swallowed : n < inv[t].i)
    /\ [][\A t \in Invocations :
            (/\ inv[t].pc \in {"upload_text", "upload_chunk", "upload_embedding"}
             /\ inv'[t] # inv[t])
            => inv'[t].pc = LinkAfter(inv[t].pc)]_vars

\* an invocation returned after an upload request of its first configuration
\* failed, and that configuration is in both ledgers
C14_Witness ==
    \E t \in Invocations :
        /\ inv[t].pc = "done" /\ inv[t].faulted /\ 1 \in inv[t].swallowed
        /\ HasEntry(Global, inv[t].pdf_cid, DbCombination(inv[t].databases[1]))
        /\ HasEntry(User(t), inv[t].pdf_cid, DbCombination(inv[t].databases[1]))

\* C15: Variants are processed in the order of the list.  While an
\* invocation is at configuration i, every configuration before i is marked
\* complete; a later configuration whose combination is not among those up
\* to i has had no pluggable call and no ledger write; a later converter or
\* chunk-cache key that is not among those up to i has no cache entry; and
\* the index moves by one, when the user's ledger is written.
C15_VariantOrder ==
    /\ [](\A t \in Invocations :
            LET r == inv[t]
                db == r.databases
            IN  (r.run > 0 /\ r.i >= 1) =>
                  /\ \A n \in 1..(r.i - 1) :
                        <<r.pdf_cid, DbCombination(db[n])>> \in r.marked
                  /\ \A n \in (r.i + 1)..Len(db) :
                        /\ (\A m \in 1..r.i : DbCombination(db[m]) # DbCombination(db[n]))
                           => /\ <<r.run, r.pdf_cid, DbCombination(db[n])>> \notin computed
                              /\ <<r.pdf_cid, DbCombination(db[n])>> \notin r.marked
                        /\ (\A m \in 1..r.i : db[m].converter # db[n].converter)
                           => db[n].converter \notin DOMAIN convert_cache[r.o]
                        /\ (\A m \in 1..r.i : ChunkCacheKey(db[m]) # ChunkCacheKey(db[n]))
                           => ChunkCacheKey(db[n]) \notin DOMAIN chunk_cache[r.o])
    /\ [][\A t \in Invocations :
            (inv'[t].run = inv[t].run /\ inv'[t].i # inv[t].i)
            => \/ inv[t].pc = "upload_pdf" /\ inv'[t].i = 1
               \/ inv[t].pc = "dump_user" /\ inv'[t].i = inv[t].i + 1]_vars

\* the first of two different configurations is done, the second is under way
C15_Witness ==
    \E t \in Invocations :
        /\ inv[t].i = 2 /\ inv[t].pc = "upload_chunk"
        /\ inv[t].databases[1].chunker # inv[t].databases[2].chunker
        /\ <<inv[t].pdf_cid, DbCombination(inv[t].databases[1])>> \in inv[t].marked

ConvertedLabels == {ConvertedBy(c.converter) : c \in Configs}
ChunkedLabels == {ChunkedBy(c.chunker) : c \in Configs}
EmbeddedLabels == {EmbeddedBy(c.embedder) : c \in Configs}

InChunkLoop == {"write_chunk", "upload_chunk", "link_chunk", "embed",
                "upload_embedding", "link_embedding"}

\* C16: Layered provenance.  Every CONVERTED_BY edge goes from a document
\* node to a node; every CHUNKED_BY edge starts at the target of a
\* CONVERTED_BY edge of a document and every EMBEDDED_BY edge at the target
\* of a CHUNKED_BY edge.  In an invocation the chunks hang below a conversion
\* of the invocation's own document, the embedding below its chunk, and the
\* document, the converted text it uploaded, the chunk and the embedding
\* each have an AUTHORED_BY edge to the author node of the invocation.
C16_Layered ==
    /\ \A e \in edges :
          /\ e[3] \in ConvertedLabels => e[1] \in DocumentNodes /\ e[2] \in nodes
          /\ e[3] \in ChunkedLabels =>
                \E x \in edges : x[3] \in ConvertedLabels /\ x[1] \in DocumentNodes
                                 /\ x[2] = e[1]
          /\ e[3] \in EmbeddedLabels =>
                \E x \in edges : x[3] \in ChunkedLabels /\ x[2] = e[1]
    /\ \A t \in Invocations :
          LET r == inv[t]
              author == AuthorCid(r.o)
          IN  /\ r.pdf_cid # "" => <<r.pdf_cid, author, "AUTHORED_BY">> \in edges
              /\ r.pc \in {"chunk"} \cup InChunkLoop =>
                    /\ <<r.pdf_cid, r.cid, ConvertedBy(Db(t).converter)>> \in edges
                    /\ ~r.reused => <<r.cid, author, "AUTHORED_BY">> \in edges
              /\ r.pc \in {"embed", "upload_embedding", "link_embedding"} =>
                    /\ <<r.cid, r.chunk_cid, ChunkedBy(Db(t).chunker)>> \in edges
                    /\ <<r.chunk_cid, author, "AUTHORED_BY">> \in edges
              /\ (\/ r.pc = "write_chunk" /\ r.j > 1
                  \/ r.pc = "read_global" /\ ~r.skip /\ Len(r.chunks) >= 1) =>
                    /\ <<r.chunk_cid, r.emb_cid, EmbeddedBy(Db(t).embedder)>> \in edges
                    /\ <<r.emb_cid, author, "AUTHORED_BY">> \in edges

\* a chunk loop has ended after an upload gave the CID ""
C16_Witness ==
    \E t \in Invocations :
        /\ inv[t].pc = "read_global" /\ ~inv[t].skip /\ Len(inv[t].chunks) >= 1
        /\ inv[t].swallowed # {}
        /\ \E e \in edges : e[3] \in EmbeddedLabels

Unreadable(file) == file.st \in {"missing", "garbled"}

\* C17: A missing or unreadable ledger file is an empty mapping.  When the
\* loop head reads a global ledger file that is missing or does not parse,
\* the invocation goes on to the pipeline of the configuration (it does not
\* skip and does not end); when __update_mappings reads such a file, the
\* mapping it is about to write holds the one pair of the invocation.
C17_UnreadableIsEmpty ==
    [][\A t \in Invocations :
          LET r == inv[t]
          IN  /\ (/\ r.pc = "next_db" /\ r.i <= Len(r.databases)
                  /\ Unreadable(ledger[Global]) /\ inv'[t] # r)
                 => inv'[t].pc = "find_conversion" /\ ~inv'[t].skip
              /\ (/\ r.pc \in {"read_global", "read_user"}
                  /\ Unreadable(ledger[ScopeAt(t)]) /\ inv'[t] # r)
                 => /\ inv'[t].pc \in {"open_global", "open_user"}
                    /\ inv'[t].mappings =
                          Put(EmptyMap, r.pdf_cid, <<DbCombination(Db(t))>>)]_vars

\* an invocation is in the pipeline of a configuration, having read the
\* global ledger while another invocation had emptied the file for writing
C17_Witness ==
    \E t \in Invocations :
        /\ inv[t].pc = "find_conversion" /\ inv[t].snap.global.st = "garbled"

\* C18: A failing author upload is fatal in the constructor.  A constructor
\* whose upload failed has set no author CID and added no author node, and
\* it does nothing more; an object that exists has a non-empty author CID
\* that is a node of the graph; process() runs on such objects only.
C18_CtorFailureFatal ==
    /\ [](/\ \A o \in Objects :
               /\ procs[o].st = "failed" =>
                     /\ procs[o].author_cid = ""
                     /\ AuthorCid(o) \notin nodes
               /\ procs[o].st = "ready" =>
                     /\ procs[o].author_cid # ""
                     /\ procs[o].author_cid \in nodes
          /\ \A t \in Invocations :
               inv[t].run > 0 => /\ procs[inv[t].o].st = "ready"
                                 /\ Author(t) # "")
    /\ [][\A o \in Objects : procs[o].st = "failed" => procs'[o] = procs[o]]_vars

\* one constructor failed at the upload, process() runs on the other object
C18_Witness ==
    \E o \in Objects, t \in Invocations :
        /\ procs[o].st = "failed"
        /\ inv[t].run > 0 /\ inv[t].o # o /\ inv[t].pc = "link_text"

ChunkUploadsAt(pc) == IF pc \in {"write_chunk", "upload_chunk"} THEN 0
                      ELSE IF pc \in {"link_chunk", "embed", "upload_embedding"} THEN 1
                      ELSE 2

ChunkGraphCallsAt(pc) == IF pc \in {"write_chunk", "upload_chunk", "link_chunk"} THEN 0
                         ELSE 3

\* C20: Chunks are processed in chunker order, one at a time.  At chunk j
\* of an iteration the invocation has made two uploads and six graph calls
\* for each of the j - 1 chunks before it and none for a later one; what it
\* uploads and registers at j is chunk j and then the embedding of chunk j;
\* and when the loop is over every chunk has had its two uploads and six
\* graph calls.
C20_ChunkOrder ==
    \A t \in Invocations :
        LET r == inv[t]
            text_up == IF r.reused THEN 0 ELSE 1
            N == Len(r.chunks)
        IN  /\ r.pc \in InChunkLoop =>
                 /\ r.j \in 1..N
                 /\ r.uploads = r.snap.uploads + text_up + 2 * (r.j - 1)
                                + ChunkUploadsAt(r.pc)
                 /\ r.graph_calls = r.snap.graph_calls + 3 * text_up + 6 * (r.j - 1)
                                    + ChunkGraphCallsAt(r.pc)
                 /\ r.pc = "upload_chunk" => tmp[User(t)] = r.chunks[r.j]
                 /\ r.pc \in {"link_chunk", "embed", "upload_embedding", "link_embedding"}
                       => r.chunk_cid \in {Cid(r.chunks[r.j]), ""}
                 /\ r.pc = "upload_embedding" =>
                       tmp[User(t)] = EmbeddingJson(Db(t).embedder, r.chunks[r.j])
                 /\ r.pc = "link_embedding" =>
                       r.emb_cid \in {Cid(EmbeddingJson(Db(t).embedder, r.chunks[r.j])), ""}
            /\ (r.pc = "read_global" /\ ~r.skip) =>
                 /\ r.j = N + 1
                 /\ r.uploads = r.snap.uploads + text_up + 2 * N
                 /\ r.graph_calls = r.snap.graph_calls + 3 * text_up + 6 * N

\* the second chunk is being registered
C20_Witness ==
    \E t \in Invocations :
        /\ inv[t].pc = "link_chunk" /\ inv[t].j = 2
        /\ inv[t].chunks[1] # inv[t].chunks[2]
        /\ inv[t].chunk_cid = Cid(inv[t].chunks[2])

\* the text of the invocation's own document under a converter, and its chunks
OwnText(t, converter) == ConvertText(converter, inv[t].pdf_path)
OwnChunks(t, db) == ChunkText(db.chunker, OwnText(t, db.converter))

\* C21: Caches are scoped to one call.  When process() has started, both
\* caches of its object are empty; and through the call every converted text
\* in the convert cache and every chunk sequence in the chunk cache is one of
\* the invocation's own document, and so are the text and the chunks the
\* invocation works on.
C21_CachesPerCall ==
    \A t \in Invocations :
        LET r == inv[t]
        IN  (r.run > 0 /\ r.pc \notin {"idle", "done", "raised"}) =>
              /\ r.pc = "upload_pdf" =>
                    convert_cache[r.o] = EmptyMap /\ chunk_cache[r.o] = EmptyMap
              /\ \A k \in DOMAIN convert_cache[r.o] :
                    convert_cache[r.o][k] = OwnText(t, k)
              /\ \A key \in DOMAIN chunk_cache[r.o] :
                    \E db \in Configs : /\ ChunkCacheKey(db) = key
                                        /\ chunk_cache[r.o][key] = OwnChunks(t, db)
              /\ r.pc \in {"upload_text", "link_text"} \cup InChunkLoop =>
                    r.text = OwnText(t, Db(t).converter)
              /\ r.pc \in InChunkLoop => r.chunks = OwnChunks(t, Db(t))

\* the second call on the object works on the text of another document than
\* the first call, under the same converter
C21_Witness ==
    /\ inv[1].run = 2 /\ inv[1].pdf_path = "d2" /\ inv[1].pc = "write_chunk"
    /\ ConvertText(Db(1).converter, "d1") \in store
    /\ convert_cache[inv[1].o][Db(1).converter] = ConvertText(Db(1).converter, "d2")

\* C22: Within one process() call the converter is called at most once per
\* converter name and the chunker at most once per pair of converter and
\* chunker name.
C22_AtMostOncePerCall ==
    \A t \in Invocations :
        /\ \A k \in DOMAIN inv[t].convert_calls : inv[t].convert_calls[k] <= 1
        /\ \A k \in DOMAIN inv[t].chunk_calls : inv[t].chunk_calls[k] <= 1

\* the positions of an iteration after the converted text was linked
AfterLinkText == {"chunk"} \cup InChunkLoop \cup
                 {"read_global", "open_global", "dump_global",
                  "read_user", "open_user", "dump_user"}

\* C23: A graph miss or a fetch miss is a cache miss, not an error.  The
\* step that misses leads to the conversion block; and in an iteration that
\* missed, with a registered converter and no other failure of the
\* environment, the invocation does not end in an exception, uploads the
\* text of its document, gets the CID of that text, registers it and links
\* it to the document (CONVERTED_BY) and to the author (AUTHORED_BY) before
\* it chunks.
C23_MissRecomputes ==
    /\ [](\A t \in Invocations :
            LET r == inv[t]
            IN  (/\ r.pc \notin {"idle", "done", "next_db", "upload_pdf"}
                 /\ r.missed # "" /\ r.errors = 0
                 /\ Db(t).converter \in conversion_methods)
                => /\ r.pc # "raised"
                   /\ r.pc = "upload_text" =>
                         /\ r.text = ConvertText(Db(t).converter, r.pdf_path)
                         /\ tmp[User(t)] = r.text
                   /\ r.pc = "link_text" => r.cid = Cid(r.text)
                   /\ r.pc \in AfterLinkText =>
                         /\ r.text \in store
                         /\ Cid(r.text) \in nodes
                         /\ <<r.pdf_cid, Cid(r.text), ConvertedBy(Db(t).converter)>>
                               \in edges
                         /\ <<Cid(r.text), Author(t), "AUTHORED_BY">> \in edges)
    /\ [][\A t \in Invocations :
            (inv[t].pc = "find_conversion" /\ inv'[t].missed # "")
            => inv'[t].pc = "convert"]_vars

NoDuplicates(seq) == \A a \in 1..Len(seq), b \in 1..Len(seq) : seq[a] = seq[b] => a = b

\* C24: markComplete is idempotent and keeps set semantics.  No list of a
\* ledger file holds a combination twice; and when an iteration has marked a
\* pair that both the global and the user's ledger already held when the
\* iteration began, both files hold what they held then.
C24_SetSemantics ==
    /\ \A s \in Scopes :
          ledger[s].st = "ok" =>
             \A k \in DOMAIN ledger[s].m : NoDuplicates(ledger[s].m[k])
    /\ \A t \in Invocations :
          LET r == inv[t]
          IN  (r.pc \in {"next_db", "done"} /\ r.i > 1) =>
                LET pair == <<r.pdf_cid, DbCombination(r.databases[r.i - 1])>>
                IN  (/\ pair \in Entries(ReadMappings(r.snap.global))
                     /\ pair \in Entries(ReadMappings(r.snap.user)))
                    => /\ ledger[Global] = r.snap.global
                       /\ ledger[User(t)] = r.snap.user

\* an iteration has rewritten both files for a pair that both already held
C24_Witness ==
    \E t \in Invocations :
        LET r == inv[t]
        IN  /\ r.pc = "next_db" /\ r.i > 1 /\ r.ledger_writes >= 2
            /\ <<r.pdf_cid, DbCombination(r.databases[r.i - 1])>>
                  \in Entries(ReadMappings(r.snap.user))
            /\ <<r.pdf_cid, DbCombination(r.databases[r.i - 1])>>
                  \in Entries(ReadMappings(r.snap.global))
            /\ ledger[User(t)] = r.snap.user

AllRecorded(t) ==
    \A n \in 1..Len(inv[t].databases) :
        /\ HasEntry(Global, inv[t].pdf_cid, DbCombination(inv[t].databases[n]))
        /\ HasEntry(User(t), inv[t].pdf_cid, DbCombination(inv[t].databases[n]))

LoopDone(r) ==
    /\ ~r.skip
    /\ r.j = Len(r.chunks) + 1
    /\ r.plugged >= r.snap.plugged + Len(r.chunks)

\* the iteration of the record r found the pair in the global ledger
FoundInGlobal(r, pair) == r.skip /\ pair \in Entries(ReadMappings(r.snap.global))

\* C26: No completion record before the work ran.  A pair that a ledger
\* file did not hold before enters it only in a write of an invocation whose
\* iteration for this pair went through all its chunks or found the pair in
\* the global ledger; and an invocation that ended in an exception has left
\* both ledger files as they were when the iteration began.
C26_NoRecordBeforeWork ==
    /\ [](\A t \in Invocations :
            inv[t].pc = "raised" =>
               /\ ledger[Global] = inv[t].snap.global
               /\ ledger[User(t)] = inv[t].snap.user)
    /\ [][\A s \in Scopes :
            \A pair \in Entries(ReadMappings(ledger'[s])) \ Entries(ReadMappings(ledger[s])) :
               \/ pair \in ever[s]
               \/ \E t \in Invocations :
                     /\ inv[t].pc \in {"dump_global", "dump_user"}
                     /\ ScopeAt(t) = s
                     /\ pair = <<inv[t].pdf_cid, DbCombination(Db(t))>>
                     /\ LoopDone(inv[t]) \/ FoundInGlobal(inv[t], pair)]_vars

\* the second configuration of a call raised after some of its work was
\* done: the first is recorded, the second is not
C26_Witness ==
    \E t \in Invocations :
        LET r == inv[t]
        IN  /\ r.pc = "raised" /\ r.i = 2 /\ r.uploads > r.snap.uploads
            /\ HasEntry(Global, r.pdf_cid, DbCombination(r.databases[1]))
            /\ ~HasEntry(Global, r.pdf_cid, DbCombination(r.databases[2]))
            /\ ~HasEntry(User(t), r.pdf_cid, DbCombination(r.databases[2]))

\* C27: Re-running is idempotent.  A second call with the document, the
\* list and the user of a first call that returned with a document CID calls
\* no converter, chunker or embedder and adds no node and no edge; between
\* its iterations and when it has returned, the graph and both ledger files
\* are what they were when it began.
C27_RerunIdempotent ==
    LET r == inv[2]
    IN  r.run = 2 =>
          /\ r.plugged = 0 /\ r.added = 0
          /\ nodes = r.entry.nodes /\ edges = r.entry.edges
          /\ \A x \in computed : x[1] # 2
          /\ r.pc \in {"upload_pdf", "next_db", "done"} => ledger = r.entry.ledger

\* the second call went through the two configurations of its list and
\* returned
C27_Witness ==
    /\ inv[2].run = 2 /\ inv[2].pc = "done" /\ inv[2].pdf_cid # ""
    /\ Len(inv[2].databases) = 2 /\ inv[2].databases[1] # inv[2].databases[2]
    /\ inv[2].ledger_writes = 4
    /\ ledger = inv[2].entry.ledger

\* the CID an upload step left in the locals of the invocation
CidAfter(pc, r) == IF pc = "upload_pdf" THEN r.pdf_cid
                   ELSE IF pc = "upload_text" THEN r.cid
                   ELSE IF pc = "upload_chunk" THEN r.chunk_cid
                   ELSE r.emb_cid

\* C28: __lighthouse_and_commit returns "" only when the upload failed.
\* Every call whose upload request succeeded returns the CID of the bytes
\* it uploaded, also when the pointer file of that CID is committed already;
\* after a document upload that succeeded process() goes on to its list.
C28_EmptyOnlyOnUploadFailure ==
    [][\A t \in Invocations :
          LET r == inv[t]
          IN  (/\ r.pc \in {"upload_pdf", "upload_text", "upload_chunk", "upload_embedding"}
               /\ inv'[t] # r
               /\ faults' = faults)
              => /\ CidAfter(r.pc, inv'[t]) =
                       Cid(IF r.pc = "upload_pdf" THEN r.pdf_path ELSE tmp[User(t)])
                 /\ r.pc = "upload_pdf" => inv'[t].pc = "next_db"]_vars

\* C29: No cross-talk through tmp.txt.  What an invocation uploads as its
\* converted text, its chunk or its embedding is what it wrote to tmp.txt
\* for that artifact, and the CID it then links is the CID of that content
\* (or "").
C29_NoCrossTalk ==
    \A t \in Invocations :
        LET r == inv[t]
        IN  /\ r.pc = "upload_text" => tmp[User(t)] = r.text
            /\ r.pc = "link_text" => r.cid \in {Cid(r.text), ""}
            /\ r.pc = "upload_chunk" => tmp[User(t)] = r.chunks[r.j]
            /\ r.pc = "link_chunk" => r.chunk_cid \in {Cid(r.chunks[r.j]), ""}
            /\ r.pc = "upload_embedding" =>
                  tmp[User(t)] = EmbeddingJson(Db(t).embedder, r.chunks[r.j])
            /\ r.pc = "link_embedding" =>
                  r.emb_cid \in {Cid(EmbeddingJson(Db(t).embedder, r.chunks[r.j])), ""}

\* the positions inside __update_mappings
InUpdateMappings == {"read_global", "open_global", "dump_global",
                     "read_user", "open_user", "dump_user"}

\* C30: Per-user completion implies global completion.  While no
\* invocation is inside __update_mappings, every pair that a user's ledger
\* records is recorded in the global ledger.
C30_UserImpliesGlobal ==
    (\A t \in Invocations : inv[t].pc \notin InUpdateMappings)
    => \A u \in Users :
          Entries(ReadMappings(ledger[u])) \subseteq Entries(ReadMappings(ledger[Global]))

\* C31: The dedup key is injective.  Two configurations of a list with the
\* same db_combination string are the same triple; and in the first call on
\* an empty ledger an iteration takes the skip branch only when the same
\* triple stands earlier in the list.
C31_KeyInjective ==
    \A t \in Invocations :
        LET r == inv[t]
            db == r.databases
        IN  /\ \A m \in 1..Len(db), n \in 1..Len(db) :
                  DbCombination(db[m]) = DbCombination(db[n]) => db[m] = db[n]
            /\ (r.run = 1 /\ r.skip /\ r.pc \in InUpdateMappings)
               => \E m \in 1..(r.i - 1) : db[m] = db[r.i]

\* C32: Chunks match the node they hang from.  When an invocation in
\* which no upload request and no pluggable function failed has linked a
\* chunk with CHUNKED_BY_<chunker> below the converted-text node it holds,
\* that node has a content, the chunk sequence of the iteration is the
\* output of the chunker on that content, and the chunk linked is an element
\* of it.
C32_ChunksMatchNode ==
    \A t \in Invocations :
        LET r == inv[t]
        IN  (r.pc \in {"embed", "upload_embedding", "link_embedding"} /\ r.errors = 0) =>
              /\ <<r.cid, r.chunk_cid, ChunkedBy(Db(t).chunker)>> \in edges
              /\ \E content \in IpfsContents(r.cid) :
                    r.chunks = ChunkText(Db(t).chunker, content)
              /\ r.chunk_cid \in {Cid(r.chunks[r.j]), ""}

\* C33: The converter lock is never leaked: on every exit path of marker()
\* and markitdown() (normal return, conversion raising, initialisation
\* raising) the lock is released, and under fair scheduling every call that
\* waits for the lock eventually acquires it and leaves the function.
C33_LockNeverLeaked ==
    /\ [](\A l \in Locked :
            holder[l] # "free" =>
                /\ cthr[holder[l]].fn = l
                /\ cthr[holder[l]].pc \in InLock)
    /\ \A t \in Threads :
          (cthr[t].pc = "acquire") ~> (cthr[t].pc \in {"returned", "raised"})

\* a call raised inside the with block of marker() and another thread is
\* inside that block afterwards
C33_Witness ==
    \E t \in Threads, u \in Threads :
        /\ t # u
        /\ cthr[t].fn = "marker" /\ cthr[t].pc = "raised"
        /\ cthr[u].fn = "marker" /\ cthr[u].pc \in Converting
        /\ holder["marker"] = u

\* C34: VectorDatabaseManager rejects invalid inserts before touching the
\* database: both insert functions raise ValueError for a db_name that is
\* not configured, batch_insert_documents raises ValueError when the three
\* lists differ in length, an empty batch returns without inserting, and in
\* all these cases no collection is modified.
C34_InvalidInsertsRejected ==
    LET c == vdb_last
        \* refused or returned before any collection was looked up, and
        \* every collection is as it was before the call
        C34_Rejected(outcome) ==
            /\ c.outcome = outcome
            /\ ~c.touched
            /\ collections = c.before
    IN  c.op # "none" =>
          /\ c.db_name \notin db_names => C34_Rejected("ValueError")
          /\ (/\ c.op = "batch_insert_documents"
              /\ c.db_name \in db_names
              /\ ~(Len(c.embeddings) = Len(c.metadatas)
                    /\ Len(c.metadatas) = Len(c.doc_ids)))
             => C34_Rejected("ValueError")
          /\ (/\ c.op = "batch_insert_documents"
              /\ c.db_name \in db_names
              /\ c.embeddings = <<>> /\ c.metadatas = <<>> /\ c.doc_ids = <<>>)
             => C34_Rejected("returned")

\* a batch with lists of different lengths was refused for a collection
\* that holds documents
C34_Witness ==
    /\ vdb_last.op = "batch_insert_documents"
    /\ vdb_last.db_name \in db_names
    /\ Len(vdb_last.embeddings) = 2 /\ Len(vdb_last.doc_ids) = 1
    /\ vdb_last.outcome = "ValueError"
    /\ collections[vdb_last.db_name] # {}

\* C35: add_reward_to_user adds a new entry.  A call that got its
\* connection leaves the table with every row it had, followed by one new
\* row (public_key, job_count, current timestamp), so that the total job
\* count of the user has grown by exactly job_count.
C35_AddsOneRow ==
    LET c == rew_last
    IN  (c.op = "add_reward_to_user" /\ c.outcome # "no_connection") =>
          /\ Len(user_rewards) = Len(c.before) + 1
          /\ SubSeq(user_rewards, 1, Len(c.before)) = c.before
          /\ LET row == user_rewards[Len(user_rewards)]
             IN  /\ row.public_key = c.public_key
                 /\ row.job_count = c.job_count
                 /\ row.time_stamp = c.at
          /\ SumJobs(user_rewards, c.public_key)
               = SumJobs(c.before, c.public_key) + c.job_count

\* C36: reward_users_by_tier pays each user total_jobs times the rate of
\* the highest tier threshold that total_jobs reaches; with the default
\* tiers 5 per job from 100 jobs, 3 per job from 50, 1 per job from 0, and
\* 0 below every threshold.
C36_TierRewards ==
    LET c == rew_last
        \* the rate of the highest threshold of tiers that total_jobs reaches
        C36_Rate(total_jobs, tiers) ==
            LET reached == {th \in DOMAIN tiers : total_jobs >= th}
            IN  IF reached = {} THEN 0
                ELSE tiers[CHOOSE th \in reached : \A x \in reached : th >= x]
    IN  (c.op = "reward_users_by_tier" /\ c.outcome = "returned") =>
          /\ DOMAIN c.rewards = GroupKeys(user_rewards)
          /\ \A public_key \in DOMAIN c.rewards :
                LET total_jobs == SumJobs(user_rewards, public_key)
                IN  /\ c.tiers.given =>
                          c.rewards[public_key]
                            = total_jobs * C36_Rate(total_jobs, c.tiers.items)
                    /\ ~c.tiers.given =>
                          c.rewards[public_key] =
                            IF total_jobs >= 100 THEN 5 * total_jobs
                            ELSE IF total_jobs >= 50 THEN 3 * total_jobs
                            ELSE IF total_jobs >= 0 THEN total_jobs
                            ELSE 0

\* with the default tiers one user was paid in the middle tier for 50 jobs
\* and another got nothing for a negative total
C36_Witness ==
    /\ rew_last.op = "reward_users_by_tier"
    /\ rew_last.outcome = "returned"
    /\ ~rew_last.tiers.given
    /\ DOMAIN rew_last.rewards = PublicKeys
    /\ rew_last.rewards["pkA"] = 3 * 50
    /\ rew_last.rewards["pkB"] = 0
    /\ SumJobs(user_rewards, "pkB") = -1

\* C37: Token issuance sends nothing on invalid input.  batch_issue_tokens
\* returns False without building or sending a transaction when the owner
\* address is unset, recipients or amounts is empty or their lengths differ;
\* issue_token does when the owner address is unset or the recipient address
\* is empty; both return True only after a transaction was sent.
C37_NoSendOnInvalidInput ==
    LET c == tok_last
        \* the call returned False, built no transaction and sent none
        C37_NothingSent ==
            /\ ~c.result
            /\ ~c.built
            /\ sent = c.before
    IN  c.op # "none" =>
          /\ owner_address \in {"None", ""} => C37_NothingSent
          /\ (/\ c.op = "batch_issue_tokens"
              /\ \/ Len(c.recipients) = 0
                 \/ Len(c.amounts) = 0
                 \/ Len(c.recipients) # Len(c.amounts))
             => C37_NothingSent
          /\ (c.op = "issue_token" /\ c.recipients[1] \in {"None", ""})
             => C37_NothingSent
          /\ c.result =>
                /\ Len(sent) = Len(c.before) + 1
                /\ SubSeq(sent, 1, Len(c.before)) = c.before
                /\ sent[Len(sent)].recipients = c.recipients
                /\ sent[Len(sent)].amounts = c.amounts

\* after a transaction was sent, a batch with two recipients and one
\* amount was refused
C37_Witness ==
    /\ tok_last.op = "batch_issue_tokens"
    /\ Len(tok_last.recipients) = 2 /\ Len(tok_last.amounts) = 1
    /\ ~tok_last.result
    /\ owner_address = "0xOwner"
    /\ Len(sent) = 1

\* C38: validate_email reports isValid = true exactly when the request
\* email, compared case-insensitively, equals an entry of the whitelist
\* file; when the whitelist file is missing every email is reported
\* invalid.
C38_CaseInsensitiveWhitelist ==
    LET \* the entries of the whitelist file: its lines without surrounding
        \* white space, blank lines and comment lines left out
        C38_Entries ==
            {Strip(whitelist_file.lines[k]) : k \in
                {k \in 1..Len(whitelist_file.lines) :
                    /\ Strip(whitelist_file.lines[k]) # <<>>
                    /\ ~StartsWithHash(whitelist_file.lines[k])}}
    IN
    (auth_last.op = "validate_email" /\ auth_last.status = 200) =>
        /\ whitelist_file.exists =>
              (auth_last.isValid <=>
                 \E entry \in C38_Entries : Lower(entry) = Lower(auth_last.email))
        /\ ~whitelist_file.exists => ~auth_last.isValid
====
